---- MODULE Spec2Model ----
(***************************************************************************)
(* The export pipeline of the screen-recording editor: VideoExporter       *)
(* (export / initializeEncoder / cancel / cleanup), the parts of           *)
(* VideoFileDecoder and FrameRenderer it drives, and the browser objects   *)
(* (HTMLVideoElement, VideoEncoder, timers) whose callbacks interleave     *)
(* with it.                                                                *)
(*                                                                         *)
(* export() is one JavaScript coroutine.  Between two awaits that really   *)
(* suspend it (a timer, a media event, an encoder or muxer promise) its    *)
(* code runs to completion; other tasks (cancel(), the encoder's output    *)
(* and error callbacks, the settling of a mux write) run only while it is  *)
(* suspended.  pc is the coroutine's position; the positions in            *)
(* SuspendPcs are the awaits that give the event loop back.                *)
(*                                                                         *)
(* Times are in milliseconds (video element) and microseconds (frame       *)
(* timestamps); the frame rates drawn divide 1000 so that 1/frameRate and  *)
(* 1e6/frameRate are exact.                                                *)
(***************************************************************************)
EXTENDS Integers, Sequences, FiniteSets, TLC

\* ---------------------------------------------------------------- bounds
\* longest source, in ms: 4300 ms at 4 fps is 18 frames, more than the
\* encoder queue holds
LongMs == 4300
ShortMs == 1300
\* how many times the user presses cancel in one run
MaxCancels == 1
\* how many times the user starts an export in one editing session
MaxExports == 3
\* ------------------------------------------------------ program constants
MAX_ENCODE_QUEUE == 16
\* readyState values: 0 HAVE_NOTHING, 1 HAVE_METADATA, 2 HAVE_CURRENT_DATA
HAVE_CURRENT_DATA == 2

Resources == {"decoder", "renderer", "encoder", "muxer"}

Durations == {ShortMs, LongMs}
ConfigFrameRates == {0, 2}
SourceFrameRates == {4}

\* source frame indices that may be malformed (new VideoFrame throws there)
BadFrameCandidates == {0, 2}

\* chunks, numbered from 0 in emission order, whose addVideoChunk may
\* reject; muxer faults are explored on the short source
FaultyChunkCandidates == {1}

\* the invocations of handleExport; each constructs its own VideoExporter
ExportCalls == 1..MaxExports

\* colour spaces: the one an encoder reports, the exporter's default, and
\* the value of an unset field
EncoderColorSpace ==
  [primaries |-> "bt709", transfer |-> "bt709", matrix |-> "bt709",
   fullRange |-> FALSE]
DefaultColorSpace ==
  [primaries |-> "bt709", transfer |-> "iec61966-2-1", matrix |-> "rgb",
   fullRange |-> TRUE]
UndefinedColorSpace ==
  [primaries |-> "undefined", transfer |-> "undefined",
   matrix |-> "undefined", fullRange |-> FALSE]

\* encoders differ in whether the decoderConfig of their first output has a
\* description (AVC in 'annexb' format has none) and a colorSpace; the
\* variants are explored on the short source
EncoderMetas == [description : BOOLEAN, colorSpace : BOOLEAN]

\* metadata without decoderConfig
NoDecoderConfig ==
  [decoderConfig |-> FALSE, codec |-> "", codedSize |-> FALSE,
   description |-> FALSE, colorSpace |-> UndefinedColorSpace]

CANCELLED_MARKER == "Export cancelled"

VARIABLES
  pc,             \* position of export()
  cancelled,      \* this.cancelled
  field,          \* which of this.decoder/renderer/encoder/muxer is non-null
  created,        \* per resource: objects constructed in this run
  released,       \* per resource: times cleanup() let the object go
  encState,       \* VideoEncoder.state ("none" before construction)
  videoLoaded,    \* the decoder's video element has its source
  readyState,     \* videoElement.readyState
  currentTime,    \* videoElement.currentTime, ms
  cfgFrameRate,   \* this.config.frameRate
  srcFrameRate,   \* videoInfo.frameRate
  durationMs,     \* videoInfo.duration, ms
  badFrames,      \* frame indices at which the source frame is malformed
  totalFrames,    \* totalFrames
  frameIndex,     \* frameIndex
  encodeQueue,    \* this.encodeQueue
  submitted,      \* frames passed to encoder.encode, in call order
  emitted,        \* chunks the encoder has emitted
  chunkCount,     \* this.chunkCount
  muxCalls,       \* chunks passed to muxer.addVideoChunk, in call order
  muxPending,     \* mux promises dispatched and not yet settled
  flushDone,      \* encoder.flush() has resolved
  finalizeCalled, \* muxer.finalize() has been called
  initLog,        \* initialization stages completed, in order
  progress,       \* argument of the latest onProgress call
  progressCalls,  \* number of onProgress calls
  result,         \* value export() resolved with
  skips,          \* source frames that failed to materialize
  cancelCalls,    \* calls of cancel()
  cancelAt,       \* where export() stood at the first cancel() ("none")
  encoderErrored, \* the encoder error callback has run
  hwAccel,        \* hardwareAcceleration the encoder was configured with
  probes,         \* answers of isConfigSupported so far, in call order
  rendered,       \* frame indices passed to renderer.renderFrame
  failures,       \* stages whose fatal failure was raised in this run
  faultyChunks,   \* chunks (by emission number) whose write the muxer rejects
  muxErrors,      \* mux failures caught and logged ('Muxing error')
  encoderMeta,    \* what the decoderConfig of the first output contains
  firstChunkMeta, \* metadata passed to addVideoChunk with the first chunk
  videoDescription, \* this.videoDescription is set
  videoColorSpace \* this.videoColorSpace (UndefinedColorSpace when unset)

\* VideoEditor: the component that starts and cancels exports
VARIABLES
  exporterRef,    \* exporterRef.current: 0 for null, else the exporter
  isExporting,    \* React state isExporting
  showExportDialog, \* React state showExportDialog
  exportCall,     \* per handleExport invocation: where it stands
  exporterState,  \* per VideoExporter: "none", "running", "returned"
  exporterCancelled \* per VideoExporter: cancel() was called on it

\* VideoFileDecoder.loadVideo and the frame-rate detection on its element
VARIABLES
  ldPc,           \* position of loadVideo()
  sidecar,        \* what fetching the .meta.json sidecar yields
  hasFrameCallback, \* 'requestVideoFrameCallback' in video
  frameInterval,  \* media time between two frames of the source, ms
  videoDuration,  \* video.duration, ms
  requestedRate,  \* config.frameRate as passed to the exporter
  metadataFrameRate, \* result of tryLoadMetadata (0 for null)
  vPaused,        \* video.paused
  vTime,          \* video.currentTime, ms
  wasCurrentTime, \* wasCurrentTime of measureFrameRate
  playPromise,    \* state of the promise video.play() returned
  callbackRequested, \* a requestVideoFrameCallback is registered
  frameDue,       \* a frame was presented, measureFrame is due
  frameMediaTime, \* metadata.mediaTime of the frame presented last, ms
  lastTime,       \* lastTime of measureFrameRate, ms
  frameCount,     \* frameCount of measureFrameRate
  frameTimes,     \* frameTimes of measureFrameRate, ms
  timerArmed,     \* the 2000 ms timeout has not fired yet
  delivered,      \* resolve() of detectFrameRate has been called
  detectionPath,  \* the path that delivered the detection result
  infoFrameRate,  \* info.frameRate
  elementOps,     \* play / pause / currentTime assignments by the detection
  seekFrame,      \* a seek started by the detection will present a frame
  dropped,        \* the player has skipped a frame
  exportRate      \* exportFrameRate of export() (0 before it is computed)

\* FrameRenderer.updateAnimationState and the ticker of VideoPlayback.
\* Numbers are fixed-point: scales and focus coordinates in units of 1e-5,
\* strengths in thousandths, times in ms.
VARIABLES
  zoomRegions,    \* config.zoomRegions
  easeOutside,    \* the ease windows lie outside [startMs, endMs]
  selectedZoom,   \* preview: a zoom region is selected in the editor
  playing,        \* frames are being rendered (export, or preview playback)
  animFrame,      \* index of the frame rendered last (-1 before the first)
  currentVideoTime, \* currentVideoTime of the renderer, ms
  animationState, \* animationState: scale, focusX, focusY
  motionIntensity, \* value the latest updateAnimationState returned
  pausedTicks     \* ticks of the preview ticker since playback paused

\* two export runs of the same project, paced differently
VARIABLES
  runState,       \* per run: animationState of its renderer
  runFrame,       \* per run: index of the frame rendered last
  runClock,       \* per run: wall-clock ms spent waiting so far
  runTransforms   \* per run: the transforms its frames were rendered with

\* SpringCursorInterpolator.  Positions in 1/100 px, velocities in
\* 1/100 px per second, times in ms.
VARIABLES
  springState,    \* state: x, y, vx, vy
  springLastTime, \* lastTime
  springInitialized, \* initialized
  springCall,     \* the latest call: its kind, arguments and the state before
  springCalls     \* number of calls so far

\* FrameRenderer.drawCursor.  Positions in px, opacity in thousandths.
VARIABLES
  cursorData,     \* config.cursorData.positions
  autoHide,       \* cursorSettings.autoHide
  cursorFrame,    \* index of the frame drawn last (-1 before the first)
  cursorTimeMs,   \* timeMs of the frame drawn last
  cursorPos,      \* what interpolateCursorPosition returned for that frame
  lastPressed,    \* lastPressed
  clickRipples,   \* clickRipples
  cursorOpacity,  \* cursorOpacity
  lastCursorMoveTime, \* lastCursorMoveTime
  prevFramePressed, \* interpolated pressed flag of the frame before
  rippleCreated   \* the frame drawn last pushed a ripple

\* FrameRenderer.updateLayout, the mask.  Lengths in 1/100 px.
VARIABLES
  cornerSettings, \* config.cornerSettings, radius already times baseScale
  maskRect,       \* croppedDisplayWidth, croppedDisplayHeight
  maskPath        \* the drawing commands maskGraphics holds

\* seekToTime of export() and the loop that calls it.  Times in
\* microseconds.
VARIABLES
  seekDurationUs, \* videoInfo.duration
  elementTimeUs,  \* videoElement.currentTime
  seekListeners,  \* 'seeked' listeners seekToTime has registered
  seekPc,         \* "start", "loop", "seeking", "settling" or "done"
  seekIndex,      \* frameIndex of the loop
  seekCall        \* the last call of seekToTime and what it did

\* The keyFrame flag of encoder.encode, with frame rates in 1/100 fps.
VARIABLES
  metaFpsCenti,   \* metadata.fps of the sidecar, what tryLoadMetadata returns
  cfgFpsCenti,    \* config.frameRate as passed to the exporter (0: unset)
  keyIndex,       \* i of the next frame to encode
  keyFlags        \* the keyFrame flags requested so far, frame 0 first

\* FrameRenderer.updateLayout and the cursor mapping of drawCursor.  Sizes
\* in px, crop fractions and scales in thousandths.
VARIABLES
  canvasSize,     \* config.width, config.height
  cropRegion,     \* config.cropRegion
  padding,        \* config.padding
  layoutCache,    \* layoutCache (NoLayout: null)
  cursorTarget    \* rawX, rawY of the frame drawn last, 1/100 px

\* CursorTracker.  Times in ms.  Arrays are told apart by the number of
\* the start() call that created them (0: the array of the constructor).
VARIABLES
  trackerNow,     \* performance.now()
  trackerStart,   \* startTime
  tracking,       \* tracking
  pollTimer,      \* pollIntervalId is set, the interval timer runs
  nextPollAt,     \* when the interval timer fires next
  pendingReplies, \* getCursorPosition calls that have not settled
  nextRequest,    \* number of the next getCursorPosition call
  recording,      \* number of start() calls so far: this.positions
  positionArrays, \* the contents of every positions array
  returnedArrays, \* arrays that stop() has returned
  mousePressed,   \* mousePressed
  wasPressed      \* wasPressed

\* The zoom regions on the timeline of the editor.  Times in 1/10 ms, so
\* that the spans of a drag have fractions that Math.round removes.
VARIABLES
  timelineTotal,  \* totalMs of TimelineWrapper (0: duration not known)
  timelineRegions, \* startMs and endMs of every zoom region, by id
  lastSpanChange  \* the span change committed last

\* The VideoFrame objects of the export loop.
VARIABLES
  openFrames,     \* frames created and not closed
  closedFrames    \* frames on which close() was called

\* The preview's video element and the refs of VideoPlayback that the
\* handlers of createVideoEventHandlers read and write.
VARIABLES
  elementPaused,  \* video.paused
  elementEnded,   \* video.ended
  isSeekingRef,   \* isSeekingRef.current
  isPlayingRef,   \* isPlayingRef.current
  allowPlaybackRef, \* allowPlaybackRef.current
  isPlaying,      \* the editor's isPlaying, set through onPlayStateChange
  timeUpdateAnimationRef, \* timeUpdateAnimationRef.current (0 for null)
  rafPending,     \* handles of the animation frames requested and not run
  nextRafId,      \* the handle requestAnimationFrame returns next
  lastCall        \* the handler that ran last and what it reported

\* The current video path of the main process and the recordings folder.
VARIABLES
  currentVideoPath, \* currentVideoPath of the IPC handlers (NoPath: null)
  recordingsDir,  \* the files in RECORDINGS_DIR
  storePc,        \* where recorder.onstop stands in storing its files
  storeStamp,     \* timestamp in the file names of the recording stored
  pathSet,        \* the path set last and not cleared or replaced since
  filesStored,    \* timestamp of the recording whose files were stored last
  lastGet         \* what the last get-current-video-path returned, and
                  \* what had been set or stored before it

\* the state of one VideoExporter and of the browser objects it drives
exporterVars == <<pc, cancelled, field, created, released, encState,
                  videoLoaded, readyState, currentTime, cfgFrameRate,
                  srcFrameRate, durationMs, badFrames, totalFrames,
                  frameIndex, encodeQueue, submitted, emitted, chunkCount,
                  muxCalls, muxPending, flushDone, finalizeCalled, initLog,
                  progress, progressCalls, result, skips, cancelCalls,
                  cancelAt, encoderErrored, hwAccel, probes, rendered,
                  failures, faultyChunks, muxErrors, encoderMeta,
                  firstChunkMeta, videoDescription, videoColorSpace>>

\* the state of the VideoEditor component
hostVars == <<exporterRef, isExporting, showExportDialog, exportCall,
              exporterState, exporterCancelled>>

\* the state of the VideoFileDecoder and of its video element
decoderVars == <<ldPc, sidecar, hasFrameCallback, frameInterval,
                 videoDuration, requestedRate, metadataFrameRate, vPaused,
                 vTime, wasCurrentTime, playPromise, callbackRequested,
                 frameDue, frameMediaTime, lastTime, frameCount, frameTimes,
                 timerArmed, delivered, detectionPath, infoFrameRate,
                 elementOps, seekFrame, dropped, exportRate>>

\* the state of the animation driver
animVars == <<zoomRegions, easeOutside, selectedZoom, playing, animFrame,
              currentVideoTime, animationState, motionIntensity,
              pausedTicks>>

\* the state of the two paced runs
paceVars == <<runState, runFrame, runClock, runTransforms>>

\* the state of the cursor spring
springVars == <<springState, springLastTime, springInitialized, springCall,
                springCalls>>

\* the state of the cursor overlay
cursorVars == <<cursorData, autoHide, cursorFrame, cursorTimeMs, cursorPos,
                lastPressed, clickRipples, cursorOpacity,
                lastCursorMoveTime, prevFramePressed, rippleCreated>>

\* the state of the mask
maskVars == <<cornerSettings, maskRect, maskPath>>

\* the state of the seeking loop
seekVars == <<seekDurationUs, elementTimeUs, seekListeners, seekPc,
              seekIndex, seekCall>>

\* the state of the keyframe requests
keyVars == <<metaFpsCenti, cfgFpsCenti, keyIndex, keyFlags>>

\* the layout of the video on the canvas
layoutVars == <<canvasSize, cropRegion, padding, layoutCache, cursorTarget>>

\* the state of the cursor tracker
trackerVars == <<trackerNow, trackerStart, tracking, pollTimer, nextPollAt,
                 pendingReplies, nextRequest, recording, positionArrays,
                 returnedArrays, mousePressed, wasPressed>>

\* the state of the timeline
timelineVars == <<timelineTotal, timelineRegions, lastSpanChange>>

\* the VideoFrame objects of the export loop
frameVars == <<openFrames, closedFrames>>

\* the state of the preview's playback
playbackVars == <<elementPaused, elementEnded, isSeekingRef, isPlayingRef,
                  allowPlaybackRef, isPlaying, timeUpdateAnimationRef,
                  rafPending, nextRafId, lastCall>>

\* the state of the video path handlers
pathVars == <<currentVideoPath, recordingsDir, storePc, storeStamp, pathSet,
              filesStored, lastGet>>

\* the state of the effect model and of the compositor
effectVars == <<animVars, paceVars, springVars, cursorVars, maskVars,
              seekVars, keyVars, layoutVars, trackerVars, timelineVars,
              frameVars, playbackVars, pathVars>>

\* the effects other than the frames of the export loop
effectsButFrames == <<animVars, paceVars, springVars, cursorVars, maskVars,
                      seekVars, keyVars, layoutVars, trackerVars,
                      timelineVars, playbackVars, pathVars>>

vars == <<exporterVars, hostVars, decoderVars, effectVars>>

\* awaits of export() that suspend it until another task resolves them
SuspendPcs == {"loadVideo", "rendererInit", "probeHardware", "probeSoftware",
               "muxerInit", "seekWait", "seekSettle", "readyWait", "bpWait",
               "flushWait", "joinWait", "finalizeWait"}

Min(a, b) == IF a < b THEN a ELSE b
Abs(a) == IF a < 0 THEN -a ELSE a
Max(a, b) == IF a > b THEN a ELSE b
\* Math.ceil(n / d) for n >= 0, d > 0
CeilDiv(n, d) == (n + d - 1) \div d

NoResult == [success |-> FALSE, error |-> "pending", blob |-> FALSE]
NoProgress ==
  [currentFrame |-> 0, totalFrames |-> 0, pctNum |-> 0, pctDen |-> 1]

Failure(msg) == [success |-> FALSE, error |-> msg, blob |-> FALSE]
Success == [success |-> TRUE, error |-> "", blob |-> TRUE]

\* the exporter after construction, with the inputs of one export
ExporterInit ==
  /\ pc = "idle"
  /\ cancelled = FALSE
  /\ field = [r \in Resources |-> FALSE]
  /\ created = [r \in Resources |-> 0]
  /\ released = [r \in Resources |-> 0]
  /\ encState = "none"
  /\ videoLoaded = FALSE
  /\ readyState = 0
  /\ currentTime = 0
  /\ cfgFrameRate \in ConfigFrameRates
  /\ srcFrameRate \in SourceFrameRates
  /\ durationMs \in Durations
  /\ badFrames \in SUBSET BadFrameCandidates
  /\ totalFrames = 0
  /\ frameIndex = 0
  /\ encodeQueue = 0
  /\ submitted = <<>>
  /\ emitted = 0
  /\ chunkCount = 0
  /\ muxCalls = <<>>
  /\ muxPending = 0
  /\ flushDone = FALSE
  /\ finalizeCalled = FALSE
  /\ initLog = <<>>
  /\ progress = NoProgress
  /\ progressCalls = 0
  /\ result = NoResult
  /\ skips = 0
  /\ cancelCalls = 0
  /\ cancelAt = "none"
  /\ encoderErrored = FALSE
  /\ hwAccel = "none"
  /\ probes = <<>>
  /\ rendered = {}
  /\ failures = {}
  /\ faultyChunks \in IF durationMs = LongMs
                     THEN {{}}
                     ELSE SUBSET FaultyChunkCandidates
  /\ muxErrors = 0
  /\ encoderMeta \in IF durationMs = LongMs
                    THEN {[description |-> TRUE, colorSpace |-> TRUE]}
                    ELSE EncoderMetas
  /\ firstChunkMeta = NoDecoderConfig
  /\ videoDescription = FALSE
  /\ videoColorSpace = UndefinedColorSpace

\* the editor before any export
EditorInit ==
  /\ exporterRef = 0
  /\ isExporting = FALSE
  /\ showExportDialog = FALSE
  /\ exportCall = [n \in ExportCalls |-> "none"]
  /\ exporterState = [n \in ExportCalls |-> "none"]
  /\ exporterCancelled = [n \in ExportCalls |-> FALSE]

\* ------------------------------------------------ VideoFileDecoder inputs
\* const maxFrames = 30
maxFrames == 30
\* const commonFps = [24, 25, 30, 48, 50, 60, 120]
CommonFps == <<24, 25, 30, 48, 50, 60, 120>>

\* the sidecar cannot be fetched, is answered with an error status, or is
\* parsed and has the given fps
Sidecars ==
  {[kind |-> "unreachable", fps |-> 0], [kind |-> "notOk", fps |-> 30],
   [kind |-> "ok", fps |-> 0], [kind |-> "ok", fps |-> 30]}
\* 25 and 10 frames per second
FrameIntervals == {40, 100}
\* shorter than 30 frames, ordinary, and longer than two minutes
DetectDurations == {1000, 60000, 121000}
\* where the exporter's first seeks go once loadVideo has resolved
ExporterSeekTimes == {500}

\* the decoder before loadVideo()
DecoderStart ==
  /\ ldPc = "idle"
  /\ metadataFrameRate = 0
  /\ vPaused = TRUE
  /\ vTime = 0
  /\ wasCurrentTime = 0
  /\ playPromise = "none"
  /\ callbackRequested = FALSE
  /\ frameDue = FALSE
  /\ frameMediaTime = 0
  /\ lastTime = 0
  /\ frameCount = 0
  /\ frameTimes = <<>>
  /\ timerArmed = FALSE
  /\ delivered = FALSE
  /\ detectionPath = "none"
  /\ infoFrameRate = 0
  /\ elementOps = 0
  /\ seekFrame = FALSE
  /\ dropped = FALSE
  /\ exportRate = 0

\* one recording, for the specifications that do not look into loadVideo
DecoderAtRest ==
  /\ DecoderStart
  /\ sidecar = [kind |-> "ok", fps |-> 30]
  /\ hasFrameCallback = TRUE
  /\ frameInterval = 40
  /\ videoDuration = 1000
  /\ requestedRate = 0

\* the recordings and platforms loadVideo is explored on
DecoderInit ==
  /\ DecoderStart
  /\ sidecar \in Sidecars
  /\ hasFrameCallback \in BOOLEAN
  /\ frameInterval \in FrameIntervals
  /\ videoDuration \in DetectDurations
  /\ requestedRate = cfgFrameRate

\* ------------------------------------------------ animation driver inputs
\* one in the fixed-point representation of scales and focus coordinates
Unit == 100000

\* DEFAULT_FOCUS
DEFAULT_FOCUS == [cx |-> Unit \div 2, cy |-> Unit \div 2]

\* ZOOM_DEPTH_SCALES, by depth: 1, 1.25, 1.5 and 1.8
ZOOM_DEPTH_SCALES ==
  [depth \in 0..3 |->
     CASE depth = 0 -> Unit
       [] depth = 1 -> (Unit * 5) \div 4
       [] depth = 2 -> (Unit * 3) \div 2
       [] depth = 3 -> (Unit * 9) \div 5]

\* the region of the end-to-end scenario: 1000 ms to 3000 ms, medium depth
ScenarioRegion ==
  [id |-> 1, startMs |-> 1000, endMs |-> 3000, depth |-> 2,
   focus |-> [cx |-> 30000, cy |-> 30000]]

\* a long region with a focus near a corner and a short one inside it
LongRegion ==
  [id |-> 1, startMs |-> 500, endMs |-> 3500, depth |-> 3,
   focus |-> [cx |-> 5000, cy |-> 95000]]
ShortRegion ==
  [id |-> 2, startMs |-> 1000, endMs |-> 2000, depth |-> 1,
   focus |-> [cx |-> 50000, cy |-> 60000]]

\* a region of a depth whose scale is 1
FlatRegion ==
  [id |-> 1, startMs |-> 1000, endMs |-> 3000, depth |-> 0,
   focus |-> [cx |-> 90000, cy |-> 10000]]

\* the zoom-region lists the driver is explored on
ZoomRegionLists ==
  {<<>>, <<ScenarioRegion>>, <<LongRegion, ShortRegion>>,
   <<ShortRegion, LongRegion>>, <<FlatRegion>>}

\* animationState as the constructors set it
IdentityState ==
  [scale |-> Unit, focusX |-> DEFAULT_FOCUS.cx, focusY |-> DEFAULT_FOCUS.cy]

\* the renderer before the first frame
AnimStart ==
  /\ selectedZoom = FALSE
  /\ playing = TRUE
  /\ animFrame = -1
  /\ currentVideoTime = 0
  /\ animationState = IdentityState
  /\ motionIntensity = 0
  /\ pausedTicks = 0

\* one project, for the specifications that do not look into the driver
AnimAtRest ==
  /\ AnimStart
  /\ zoomRegions = <<>>
  /\ easeOutside = TRUE

\* the runs that are compared
Runs == {1, 2}

\* both runs before their first frame
PaceAtRest ==
  /\ runState = [r \in Runs |-> IdentityState]
  /\ runFrame = [r \in Runs |-> -1]
  /\ runClock = [r \in Runs |-> 0]
  /\ runTransforms = [r \in Runs |-> <<>>]

\* state of a SpringCursorInterpolator after construction and after reset()
SpringZero == [x |-> 0, y |-> 0, vx |-> 0, vy |-> 0]

\* no call of the interpolator yet
NoSpringCall ==
  [kind |-> "none", targetX |-> 0, targetY |-> 0, timeDiff |-> 0,
   first |-> FALSE, before |-> SpringZero]

\* the interpolator as constructed
SpringAtRest ==
  /\ springState = SpringZero
  /\ springLastTime = 0
  /\ springInitialized = FALSE
  /\ springCall = NoSpringCall
  /\ springCalls = 0

\* null of interpolateCursorPosition
NoPosition == [x |-> -1, y |-> -1, timestamp |-> -1, pressed |-> FALSE]

\* the renderer's cursor fields before the first frame
CursorStart ==
  /\ cursorFrame = -1
  /\ cursorTimeMs = 0
  /\ cursorPos = NoPosition
  /\ lastPressed = FALSE
  /\ clickRipples = <<>>
  /\ cursorOpacity = 1000
  /\ lastCursorMoveTime = 0
  /\ prevFramePressed = FALSE
  /\ rippleCreated = FALSE

\* a project without cursor data
CursorAtRest ==
  /\ CursorStart
  /\ cursorData = <<>>
  /\ autoHide = FALSE

\* a project with square corners, before the first layout
MaskAtRest ==
  /\ cornerSettings = [radius |-> 0, squircle |-> TRUE, tl |-> TRUE,
                       tr |-> TRUE, bl |-> TRUE, br |-> TRUE]
  /\ maskRect = [width |-> 192000, height |-> 108000]
  /\ maskPath = <<>>

\* seekToTime has not been called
NoSeekCall ==
  [called |-> FALSE, frameTime |-> 0, requested |-> 0, clamped |-> 0,
   before |-> 0, assigned |-> FALSE, listened |-> FALSE, waited |-> FALSE]

\* export() before 'await seekToTime(0)'
SeekStart ==
  /\ seekListeners = 0
  /\ seekPc = "start"
  /\ seekIndex = 0
  /\ seekCall = NoSeekCall

\* a source of one second, the element at its start
SeekAtRest ==
  /\ SeekStart
  /\ seekDurationUs = 1000000
  /\ elementTimeUs = 0

\* no frame encoded yet
KeyStart ==
  /\ keyIndex = 0
  /\ keyFlags = <<>>

\* a recording of 4 fps, no frame encoded
KeyAtRest ==
  /\ KeyStart
  /\ metaFpsCenti = 400
  /\ cfgFpsCenti = 0

\* layoutCache before the first updateLayout
NoLayout ==
  [stageSize |-> [width |-> 0, height |-> 0],
   videoSize |-> [width |-> 0, height |-> 0],
   baseScale |-> 0, baseOffset |-> [x |-> 0, y |-> 0]]

\* cropRegion of a project that was not cropped
FullCrop == [x |-> 0, y |-> 0, width |-> 1000, height |-> 1000]

\* an uncropped recording that fills the canvas, laid out
LayoutAtRest ==
  /\ canvasSize = [width |-> 1920, height |-> 1080]
  /\ cropRegion = FullCrop
  /\ padding = 0
  /\ layoutCache =
       [stageSize |-> [width |-> 1920, height |-> 1080],
        videoSize |-> [width |-> 1920, height |-> 1080],
        baseScale |-> 1000, baseOffset |-> [x |-> 0, y |-> 0]]
  /\ cursorTarget = [x |-> 0, y |-> 0]

\* start() calls that are followed
MaxStarts == 2

\* a CursorTracker as constructed
TrackerAtRest ==
  /\ trackerNow = 0
  /\ trackerStart = 0
  /\ tracking = FALSE
  /\ pollTimer = FALSE
  /\ nextPollAt = 0
  /\ pendingReplies = {}
  /\ nextRequest = 1
  /\ recording = 0
  /\ positionArrays = [e \in 0..MaxStarts |-> <<>>]
  /\ returnedArrays = {}
  /\ mousePressed = FALSE
  /\ wasPressed = FALSE

\* ids of the zoom regions on the timeline
RegionIds == {1, 2}

\* no span change yet
NoSpanChange == [kind |-> "none", rounded |-> FALSE]

\* two zoom regions as added: 0..2 ms and 3..5 ms
TimelineStart ==
  /\ timelineRegions = (1 :> [startMs |-> 0, endMs |-> 20]
                        @@ 2 :> [startMs |-> 30, endMs |-> 50])
  /\ lastSpanChange = NoSpanChange

\* a timeline of 5 ms
TimelineAtRest ==
  /\ TimelineStart
  /\ timelineTotal = 50

\* no VideoFrame exists
FramesAtRest ==
  /\ openFrames = {}
  /\ closedFrames = {}

\* what a step of the playback model records about itself
Called(handler, notified) == [handler |-> handler, notified |-> notified]

\* the preview after the handlers were attached: layoutVideoContent();
\* video.pause()
PlaybackAtRest ==
  /\ elementPaused = TRUE
  /\ elementEnded = FALSE
  /\ isSeekingRef = FALSE
  /\ isPlayingRef = FALSE
  /\ allowPlaybackRef = FALSE
  /\ isPlaying = FALSE
  /\ timeUpdateAnimationRef = 0
  /\ rafPending = {}
  /\ nextRafId = 1
  /\ lastCall = Called("none", "none")

\* a file: its folder, the timestamp in its name and what its name ends
\* with
File(dir, stamp, ext) == [dir |-> dir, stamp |-> stamp, ext |-> ext]

\* currentVideoPath = null
NoPath == File("none", 0, "")

\* no get-current-video-path yet
NoGet == [success |-> FALSE, path |-> NoPath, set |-> NoPath, stored |-> 0]

\* the main process after registerIpcHandlers, the folder empty
PathAtRest ==
  /\ currentVideoPath = NoPath
  /\ recordingsDir = {}
  /\ storePc = "idle"
  /\ storeStamp = 0
  /\ pathSet = NoPath
  /\ filesStored = 0
  /\ lastGet = NoGet

\* the effects for the specifications that do not look into them
EffectsAtRest ==
  /\ AnimAtRest
  /\ PaceAtRest
  /\ SpringAtRest
  /\ CursorAtRest
  /\ MaskAtRest
  /\ SeekAtRest
  /\ KeyAtRest
  /\ LayoutAtRest
  /\ TrackerAtRest
  /\ TimelineAtRest
  /\ FramesAtRest
  /\ PlaybackAtRest
  /\ PathAtRest

Init == ExporterInit /\ EditorInit /\ DecoderAtRest /\ EffectsAtRest

\* ------------------------------------------------------------- cleanup()
\* each operator gives the value one field of the exporter or of a browser
\* object has after cleanup() ran on the current state

\* cleanup() that releases the objects but keeps the references
FieldAfterCleanupKept(r) == field[r]

\* cleanup() sets every held reference to null
FieldAfterCleanup(r) == FALSE

\* the branch `if (this.x) { release; this.x = null }` runs for held objects;
\* the muxer has no release call, its reference is dropped
ReleasedAfterCleanup(r) == IF field[r] THEN released[r] + 1 ELSE released[r]

\* encoder.close() only when the encoder is held and 'configured'
EncStateAfterCleanup ==
  IF field["encoder"] /\ encState = "configured" THEN "closed" ELSE encState

\* decoder.destroy(): pause(), src = '' unloads the element
VideoLoadedAfterCleanup == IF field["decoder"] THEN FALSE ELSE videoLoaded
ReadyStateAfterCleanup == IF field["decoder"] THEN 0 ELSE readyState
CurrentTimeAfterCleanup == IF field["decoder"] THEN 0 ELSE currentTime

cleanup ==
  /\ field' = [r \in Resources |-> FieldAfterCleanup(r)]
  /\ released' = [r \in Resources |-> ReleasedAfterCleanup(r)]
  /\ encState' = EncStateAfterCleanup
  /\ videoLoaded' = VideoLoadedAfterCleanup
  /\ readyState' = ReadyStateAfterCleanup
  /\ currentTime' = CurrentTimeAfterCleanup
  /\ encodeQueue' = 0
  /\ chunkCount' = 0
  /\ videoDescription' = FALSE
  /\ videoColorSpace' = UndefinedColorSpace

\* `return res` or the catch block, followed by the finally block
Return(res) ==
  /\ pc' = "returned"
  /\ result' = res
  /\ cleanup

\* ------------------------------------------------------------- cancel()
cancel ==
  /\ pc \in SuspendPcs \cup {"returned"}
  /\ cancelCalls < MaxCancels
  /\ cancelCalls' = cancelCalls + 1
  /\ cancelAt' = IF cancelCalls = 0 THEN pc ELSE cancelAt
  /\ cancelled' = TRUE
  /\ cleanup
  /\ UNCHANGED <<pc, created, cfgFrameRate, srcFrameRate, durationMs,
                 badFrames, totalFrames, frameIndex, submitted, emitted,
                 muxCalls, muxPending, flushDone, finalizeCalled, initLog,
                 progress, progressCalls, result, skips, encoderErrored,
                 hwAccel, probes, rendered, failures, faultyChunks, muxErrors,
                 encoderMeta, firstChunkMeta, hostVars, decoderVars,
                 effectVars>>

\* ------------------------------------------------ export(): initialization
\* this.cleanup(); this.cancelled = false; this.decoder = new
\* VideoFileDecoder(); loadVideo() creates the element and sets its src
ExportStart ==
  /\ pc = "idle"
  /\ pc' = "loadVideo"
  /\ cancelled' = FALSE
  /\ field' = [r \in Resources |->
                 IF r = "decoder" THEN TRUE ELSE FieldAfterCleanup(r)]
  /\ released' = [r \in Resources |-> ReleasedAfterCleanup(r)]
  /\ encState' = EncStateAfterCleanup
  /\ created' = [created EXCEPT !["decoder"] = @ + 1]
  /\ videoLoaded' = TRUE
  /\ readyState' = 0
  /\ currentTime' = 0
  /\ encodeQueue' = 0
  /\ chunkCount' = 0
  /\ videoDescription' = FALSE
  /\ videoColorSpace' = UndefinedColorSpace
  /\ UNCHANGED <<cfgFrameRate, srcFrameRate, durationMs, badFrames,
                 totalFrames, frameIndex, submitted, emitted, muxCalls,
                 muxPending, flushDone, finalizeCalled, initLog, progress,
                 progressCalls, result, skips, cancelCalls, cancelAt,
                 encoderErrored, hwAccel, probes, rendered, failures,
                 faultyChunks, muxErrors, encoderMeta, firstChunkMeta,
                 hostVars, decoderVars, effectVars>>

\* an export that always runs at the source's rate
ExportFrameRateOfSource(configured, detected) == detected

\* this.config.frameRate > 0 ? this.config.frameRate : videoInfo.frameRate
ExportFrameRateOf(configured, detected) ==
  IF configured > 0 THEN configured ELSE detected

\* the frame rate the export runs at
ExportFrameRate == ExportFrameRateOf(cfgFrameRate, srcFrameRate)

\* loadVideo() resolved: videoInfo is known, the frame rate is resolved and
\* stored, the FrameRenderer is constructed and initialize() is awaited.
\* After destroy() the promise can still resolve (the detection timeout).
LoadVideoResolve ==
  /\ pc = "loadVideo"
  /\ pc' = "rendererInit"
  /\ cfgFrameRate' = ExportFrameRate
  /\ readyState' = IF videoLoaded THEN HAVE_CURRENT_DATA ELSE 0
  /\ field' = [field EXCEPT !["renderer"] = TRUE]
  /\ created' = [created EXCEPT !["renderer"] = @ + 1]
  /\ initLog' = initLog \o <<"decoder", "frameRate">>
  /\ UNCHANGED <<cancelled, released, encState, videoLoaded, currentTime,
                 srcFrameRate, durationMs, badFrames, totalFrames, frameIndex,
                 encodeQueue, submitted, emitted, chunkCount, muxCalls,
                 muxPending, flushDone, finalizeCalled, progress,
                 progressCalls, result, skips, cancelCalls, cancelAt,
                 encoderErrored, hwAccel, probes, rendered, failures,
                 faultyChunks, muxErrors, videoDescription, videoColorSpace,
                 encoderMeta, firstChunkMeta, hostVars, decoderVars,
                 effectVars>>

\* what the catch and finally blocks leave alone when the step records its
\* failure
FatalUnchanged ==
  UNCHANGED <<cancelled, created, cfgFrameRate, srcFrameRate, durationMs,
              badFrames, totalFrames, frameIndex, submitted, emitted,
              muxCalls, muxPending, flushDone, finalizeCalled, initLog,
              progress, progressCalls, skips, cancelCalls, cancelAt,
              encoderErrored, hwAccel, probes, rendered, faultyChunks,
              muxErrors, encoderMeta, firstChunkMeta, hostVars, decoderVars,
              effectVars>>

\* what the catch and finally blocks leave alone
ReturnUnchanged ==
  UNCHANGED <<cancelled, created, cfgFrameRate, srcFrameRate, durationMs,
              badFrames, totalFrames, frameIndex, submitted, emitted,
              muxCalls, muxPending, flushDone, finalizeCalled, initLog,
              progress, progressCalls, skips, cancelCalls, cancelAt,
              encoderErrored, hwAccel, probes, rendered, failures,
              faultyChunks, muxErrors, encoderMeta, firstChunkMeta, hostVars,
              decoderVars, effectVars>>

\* a throw of the named stage reaches the catch block, then the finally
\* block
FatalReturn(stage, msg) ==
  /\ Return(Failure(msg))
  /\ failures' = failures \cup {stage}
  /\ FatalUnchanged

\* the 'error' event of the element, or a null element after destroy()
LoadVideoReject ==
  /\ pc = "loadVideo"
  /\ FatalReturn("decoder", IF field["decoder"] THEN "Failed to load video"
                                                ELSE "TypeError")

\* Math.floor in place of Math.ceil
TotalFramesFloor == (durationMs * cfgFrameRate) \div 1000

\* Math.ceil(videoInfo.duration * this.config.frameRate)
TotalFrames == CeilDiv(durationMs * cfgFrameRate, 1000)

\* renderer.initialize() resolved (it cannot after destroy(): this.app is
\* null); totalFrames is computed and initializeEncoder() constructs the
\* encoder and awaits the hardware probe
RendererInitResolve ==
  /\ pc = "rendererInit"
  /\ field["renderer"]
  /\ pc' = "probeHardware"
  /\ totalFrames' = TotalFrames
  /\ encodeQueue' = 0
  /\ chunkCount' = 0
  /\ UNCHANGED <<videoDescription, videoColorSpace>>
  /\ field' = [field EXCEPT !["encoder"] = TRUE]
  /\ created' = [created EXCEPT !["encoder"] = @ + 1]
  /\ encState' = "unconfigured"
  /\ initLog' = Append(initLog, "renderer")
  /\ UNCHANGED <<cancelled, released, videoLoaded, readyState, currentTime,
                 cfgFrameRate, srcFrameRate, durationMs, badFrames,
                 frameIndex, submitted, emitted, muxCalls, muxPending,
                 flushDone, finalizeCalled, progress, progressCalls, result,
                 skips, cancelCalls, cancelAt, encoderErrored, hwAccel,
                 probes, rendered, failures, faultyChunks, muxErrors,
                 encoderMeta, firstChunkMeta, hostVars, decoderVars,
                 effectVars>>

\* a renderer failure that is swallowed: export() goes on to the encoder
RendererInitRejectSwallowed ==
  /\ pc = "rendererInit"
  /\ pc' = "probeHardware"
  /\ totalFrames' = TotalFrames
  /\ encodeQueue' = 0
  /\ chunkCount' = 0
  /\ UNCHANGED <<videoDescription, videoColorSpace>>
  /\ field' = [field EXCEPT !["encoder"] = TRUE]
  /\ created' = [created EXCEPT !["encoder"] = @ + 1]
  /\ encState' = "unconfigured"
  /\ UNCHANGED <<cancelled, released, videoLoaded, readyState, currentTime,
                 cfgFrameRate, srcFrameRate, durationMs, badFrames,
                 frameIndex, submitted, emitted, muxCalls, muxPending,
                 flushDone, finalizeCalled, initLog, progress, progressCalls,
                 result, skips, cancelCalls, cancelAt, encoderErrored,
                 hwAccel, probes, rendered, failures, faultyChunks, muxErrors,
                 encoderMeta, firstChunkMeta, hostVars, decoderVars,
                 effectVars>>

\* renderer.initialize() rejected: a failure of its own, or a TypeError
\* on this.app after destroy()
RendererInitReject ==
  /\ pc = "rendererInit"
  /\ FatalReturn("renderer", IF field["renderer"] THEN "Renderer init failed"
                                                  ELSE "TypeError")

\* this.encoder.configure(encoderConfig), then back in export():
\* this.muxer = new VideoMuxer(...); await this.muxer.initialize()
ConfigureEncoder(acceleration) ==
  /\ pc' = "muxerInit"
  /\ encState' = "configured"
  /\ hwAccel' = acceleration
  /\ field' = [field EXCEPT !["muxer"] = TRUE]
  /\ created' = [created EXCEPT !["muxer"] = @ + 1]
  /\ initLog' = Append(initLog, "encoder")
  /\ UNCHANGED <<cancelled, released, videoLoaded, readyState, currentTime,
                 cfgFrameRate, srcFrameRate, durationMs, badFrames,
                 totalFrames, frameIndex, encodeQueue, submitted, emitted,
                 chunkCount, muxCalls, muxPending, flushDone, finalizeCalled,
                 progress, progressCalls, result, skips, cancelCalls,
                 cancelAt, encoderErrored, rendered, failures, faultyChunks,
                 muxErrors, videoDescription, videoColorSpace, encoderMeta,
                 firstChunkMeta, hostVars, decoderVars, effectVars>>

\* what the catch and finally blocks leave alone after a probe answered
ProbeReturnUnchanged ==
  UNCHANGED <<cancelled, created, cfgFrameRate, srcFrameRate, durationMs,
              badFrames, totalFrames, frameIndex, submitted, emitted,
              muxCalls, muxPending, flushDone, finalizeCalled, initLog,
              progress, progressCalls, skips, cancelCalls, cancelAt,
              encoderErrored, hwAccel, rendered, faultyChunks, muxErrors,
              encoderMeta, firstChunkMeta, hostVars, decoderVars, effectVars>>

\* the fallback probe repeats the hardware configuration
FallbackAccelerationUnchanged == "prefer-hardware"

\* encoderConfig.hardwareAcceleration = 'prefer-software'
FallbackAcceleration == "prefer-software"

\* await VideoEncoder.isConfigSupported(encoderConfig) resolved for the
\* configuration with hardwareAcceleration: 'prefer-hardware'
ProbeHardware ==
  /\ pc = "probeHardware"
  /\ \E supported \in BOOLEAN :
       /\ probes' = Append(probes, supported)
       /\ IF supported
          THEN IF field["encoder"]
               THEN ConfigureEncoder("prefer-hardware")
               ELSE /\ Return(Failure("TypeError"))
                    /\ ProbeReturnUnchanged
                    /\ UNCHANGED failures
          ELSE /\ pc' = "probeSoftware"
               /\ UNCHANGED <<cancelled, field, created, released, encState,
                              videoLoaded, readyState, currentTime,
                              cfgFrameRate, srcFrameRate, durationMs,
                              badFrames, totalFrames, frameIndex, encodeQueue,
                              submitted, emitted, chunkCount, muxCalls,
                              muxPending, flushDone, finalizeCalled, initLog,
                              progress, progressCalls, result, skips,
                              cancelCalls, cancelAt, encoderErrored, hwAccel,
                              rendered, failures, faultyChunks, muxErrors,
                              videoDescription, videoColorSpace, encoderMeta,
                              firstChunkMeta, hostVars, decoderVars,
                              effectVars>>

\* the probe of the fallback configuration resolved
ProbeSoftware ==
  /\ pc = "probeSoftware"
  /\ \E supported \in BOOLEAN :
       /\ probes' = Append(probes, supported)
       /\ IF supported
          THEN IF field["encoder"]
               THEN ConfigureEncoder(FallbackAcceleration)
               ELSE /\ Return(Failure("TypeError"))
                    /\ ProbeReturnUnchanged
                    /\ UNCHANGED failures
          ELSE /\ Return(Failure("Video encoding not supported on this system"))
               /\ failures' = failures \cup {"encoder"}
               /\ ProbeReturnUnchanged

\* clampedTime of seekToTime
ClampedTime(time) == Min(time, durationMs - 1)

\* seekToTime resolves at once when the element is within 1 ms
AlreadyAt(time) == Abs(currentTime - ClampedTime(time)) < 1

\* muxer.initialize() resolved; getVideoElement(), pause(), seekToTime(0).
\* The element has been at 0 since it was loaded, so the first seek
\* resolves without a 'seeked' event.
MuxerInitResolve ==
  /\ pc = "muxerInit"
  /\ IF field["decoder"]
     THEN /\ AlreadyAt(0)
          /\ pc' = "loopHead"
          /\ initLog' = Append(initLog, "muxer")
          /\ UNCHANGED <<cancelled, field, created, released, encState,
                         videoLoaded, readyState, currentTime, cfgFrameRate,
                         srcFrameRate, durationMs, badFrames, totalFrames,
                         frameIndex, encodeQueue, submitted, emitted,
                         chunkCount, muxCalls, muxPending, flushDone,
                         finalizeCalled, progress, progressCalls, result,
                         skips, cancelCalls, cancelAt, encoderErrored,
                         hwAccel, probes, rendered, failures, faultyChunks,
                         muxErrors, videoDescription, videoColorSpace,
                         encoderMeta, firstChunkMeta, hostVars, decoderVars,
                         effectVars>>
     ELSE /\ Return(Failure("TypeError"))
          /\ initLog' = Append(initLog, "muxer")
          /\ UNCHANGED <<cancelled, created, cfgFrameRate, srcFrameRate,
                         durationMs, badFrames, totalFrames, frameIndex,
                         submitted, emitted, muxCalls, muxPending, flushDone,
                         finalizeCalled, progress, progressCalls, skips,
                         cancelCalls, cancelAt, encoderErrored, hwAccel,
                         probes, rendered, failures, faultyChunks, muxErrors,
                         encoderMeta, firstChunkMeta, hostVars, decoderVars,
                         effectVars>>

MuxerInitReject ==
  /\ pc = "muxerInit"
  /\ FatalReturn("muxer", "Muxer init failed")

\* --------------------------------------------------- export(): main loop
\* const videoTime = Math.min(i * timeStep, videoInfo.duration - 0.001), ms
VideoTime(i) == Min((i * 1000) \div cfgFrameRate, durationMs - 1)

\* const frameDuration = 1_000_000 / this.config.frameRate, microseconds
FrameDuration == 1000000 \div cfgFrameRate

\* the loop condition, then seekToTime(videoTime); after the loop, the
\* cancelled test and the flush are separate steps
LoopHead ==
  /\ pc = "loopHead"
  /\ IF frameIndex < totalFrames /\ ~cancelled
     THEN IF AlreadyAt(VideoTime(frameIndex))
          THEN pc' = "afterSeek" /\ UNCHANGED currentTime
          ELSE pc' = "seekWait"
               /\ currentTime' = ClampedTime(VideoTime(frameIndex))
     ELSE pc' = "afterLoop" /\ UNCHANGED currentTime
  /\ UNCHANGED <<cancelled, field, created, released, encState, videoLoaded,
                 readyState, cfgFrameRate, srcFrameRate, durationMs,
                 badFrames, totalFrames, frameIndex, encodeQueue, submitted,
                 emitted, chunkCount, muxCalls, muxPending, flushDone,
                 finalizeCalled, initLog, progress, progressCalls, result,
                 skips, cancelCalls, cancelAt, encoderErrored, hwAccel,
                 probes, rendered, failures, faultyChunks, muxErrors,
                 videoDescription, videoColorSpace, encoderMeta,
                 firstChunkMeta, hostVars, decoderVars, effectVars>>

\* everything but pc and readyState
OnlyPcAndReadyState ==
  UNCHANGED <<cancelled, field, created, released, encState, videoLoaded,
              currentTime, cfgFrameRate, srcFrameRate, durationMs, badFrames,
              totalFrames, frameIndex, encodeQueue, submitted, emitted,
              chunkCount, muxCalls, muxPending, flushDone, finalizeCalled,
              initLog, progress, progressCalls, result, skips, cancelCalls,
              cancelAt, encoderErrored, hwAccel, probes, rendered, failures,
              faultyChunks, muxErrors, videoDescription, videoColorSpace,
              encoderMeta, firstChunkMeta, hostVars, decoderVars, effectVars>>

\* the element's 'seeked' event: onSeeked removes itself and starts the
\* 5 ms timer.  An element whose src was cleared drops the seek and never
\* fires the event.  The new frame may or may not be decoded yet.
Seeked ==
  /\ pc = "seekWait"
  /\ videoLoaded
  /\ pc' = "seekSettle"
  /\ readyState' \in {1, HAVE_CURRENT_DATA}
  /\ OnlyPcAndReadyState

\* setTimeout(resolve, 5) of onSeeked
SeekSettled ==
  /\ pc = "seekSettle"
  /\ pc' = "afterSeek"
  /\ UNCHANGED readyState
  /\ OnlyPcAndReadyState

\* if (videoElement.readyState < 2) await <polling promise>
AfterSeek ==
  /\ pc = "afterSeek"
  /\ pc' = IF readyState < HAVE_CURRENT_DATA THEN "readyWait" ELSE "createFrame"
  /\ UNCHANGED readyState
  /\ OnlyPcAndReadyState

\* the element decoded the frame at the current position
VideoDataReady ==
  /\ pc \in SuspendPcs
  /\ videoLoaded
  /\ readyState = 1
  /\ readyState' = HAVE_CURRENT_DATA
  /\ UNCHANGED pc
  /\ OnlyPcAndReadyState

\* checkReady on an animation frame: resolves once readyState >= 2,
\* otherwise requests the next animation frame
CheckReady ==
  /\ pc = "readyWait"
  /\ readyState >= HAVE_CURRENT_DATA
  /\ pc' = "createFrame"
  /\ UNCHANGED readyState
  /\ OnlyPcAndReadyState

\* a frame that cannot be created ends the export
CreateFrameFailsAborts ==
  /\ pc = "createFrame"
  /\ frameIndex \in badFrames
  /\ Return(Failure("Failed to create frame"))
  /\ ReturnUnchanged

\* new VideoFrame(videoElement) threw: warn, frameIndex++, continue
CreateFrameFails ==
  /\ pc = "createFrame"
  /\ frameIndex \in badFrames
  /\ skips' = skips + 1
  /\ frameIndex' = frameIndex + 1
  /\ pc' = "loopHead"
  /\ UNCHANGED <<cancelled, field, created, released, encState, videoLoaded,
                 readyState, currentTime, cfgFrameRate, srcFrameRate,
                 durationMs, badFrames, totalFrames, encodeQueue, submitted,
                 emitted, chunkCount, muxCalls, muxPending, flushDone,
                 finalizeCalled, initLog, progress, progressCalls, result,
                 cancelCalls, cancelAt, encoderErrored, hwAccel, probes,
                 rendered, failures, faultyChunks, muxErrors,
                 videoDescription, videoColorSpace, encoderMeta,
                 firstChunkMeta, hostVars, decoderVars, effectVars>>

\* new VideoFrame(videoElement, { timestamp }) of frame i
SourceFrame(i) == [of |-> "videoElement", index |-> i]

\* new VideoFrame(canvas, { timestamp, duration }) of frame i
CanvasFrame(i) == [of |-> "canvas", index |-> i]

\* the source frame was created, renderFrame() resolved, videoFrame.close(),
\* getCanvas() and new VideoFrame(canvas) follow; renderFrame has no
\* suspending await
RenderFrame ==
  /\ pc = "createFrame"
  /\ frameIndex \notin badFrames
  /\ field["renderer"]
  /\ pc' = "backpressure"
  /\ rendered' = rendered \cup {frameIndex}
  /\ openFrames' = openFrames \cup {CanvasFrame(frameIndex)}
  /\ closedFrames' = closedFrames \cup {SourceFrame(frameIndex)}
  /\ UNCHANGED <<cancelled, field, created, released, encState, videoLoaded,
                 readyState, currentTime, cfgFrameRate, srcFrameRate,
                 durationMs, badFrames, totalFrames, frameIndex, encodeQueue,
                 submitted, emitted, chunkCount, muxCalls, muxPending,
                 flushDone, finalizeCalled, initLog, progress, progressCalls,
                 result, skips, cancelCalls, cancelAt, encoderErrored,
                 hwAccel, probes, failures, faultyChunks, muxErrors,
                 videoDescription, videoColorSpace, encoderMeta,
                 firstChunkMeta, hostVars, decoderVars,
                 effectsButFrames>>

\* a renderFrame() failure handled like a frame that cannot be created
RenderFrameFailsSkipped ==
  /\ pc = "createFrame"
  /\ frameIndex \notin badFrames
  /\ failures' = failures \cup {"renderFrame"}
  /\ frameIndex' = frameIndex + 1
  /\ pc' = "loopHead"
  /\ UNCHANGED <<cancelled, field, created, released, encState, videoLoaded,
                 readyState, currentTime, cfgFrameRate, srcFrameRate,
                 durationMs, badFrames, totalFrames, encodeQueue, submitted,
                 emitted, chunkCount, muxCalls, muxPending, flushDone,
                 finalizeCalled, initLog, progress, progressCalls, result,
                 skips, cancelCalls, cancelAt, encoderErrored, hwAccel,
                 probes, rendered, faultyChunks, muxErrors, videoDescription,
                 videoColorSpace, encoderMeta, firstChunkMeta, hostVars,
                 decoderVars, effectVars>>

\* the source frame was created and renderFrame() threw, or this.renderer
\* is null: control passes to the catch block, past videoFrame.close()
RenderFrameFails ==
  /\ pc = "createFrame"
  /\ frameIndex \notin badFrames
  /\ Return(Failure(IF field["renderer"] THEN "Render failed"
                                          ELSE "TypeError"))
  /\ failures' = failures \cup {"renderFrame"}
  /\ openFrames' = openFrames \cup {SourceFrame(frameIndex)}
  /\ UNCHANGED <<cancelled, created, cfgFrameRate, srcFrameRate, durationMs,
                 badFrames, totalFrames, frameIndex, submitted, emitted,
                 muxCalls, muxPending, flushDone, finalizeCalled, initLog,
                 progress, progressCalls, skips, cancelCalls, cancelAt,
                 encoderErrored, hwAccel, probes, rendered, faultyChunks,
                 muxErrors, encoderMeta, firstChunkMeta, hostVars,
                 decoderVars, effectsButFrames, closedFrames>>

\* the backpressure test with > in place of >=
QueueFullOffByOne == encodeQueue > MAX_ENCODE_QUEUE /\ ~cancelled

\* while (this.encodeQueue >= this.MAX_ENCODE_QUEUE && !this.cancelled)
QueueFull == encodeQueue >= MAX_ENCODE_QUEUE /\ ~cancelled

BackpressureWait ==
  /\ pc = "backpressure"
  /\ QueueFull
  /\ pc' = "bpWait"
  /\ UNCHANGED readyState
  /\ OnlyPcAndReadyState

\* setTimeout(resolve, 5) of the backpressure wait
BackpressureTimer ==
  /\ pc = "bpWait"
  /\ pc' = "backpressure"
  /\ UNCHANGED readyState
  /\ OnlyPcAndReadyState

\* the encode guard without the state test
MaySubmitAnyState == field["encoder"]

\* if (this.encoder && this.encoder.state === 'configured')
MaySubmit == field["encoder"] /\ encState = "configured"

\* the frame handed to encoder.encode for index i
ExportFrame(i) ==
  [index |-> i, timestamp |-> i * FrameDuration, duration |-> FrameDuration,
   keyFrame |-> (i % cfgFrameRate = 0)]

\* progress computed from n + 1 although frameIndex was already advanced
ProgressOffByOne(n) ==
  [currentFrame |-> n + 1, totalFrames |-> totalFrames,
   pctNum |-> (n + 1) * 100, pctDen |-> totalFrames]

\* the argument of onProgress after frameIndex was advanced to n
Progress(n) ==
  [currentFrame |-> n, totalFrames |-> totalFrames,
   pctNum |-> n * 100, pctDen |-> totalFrames]

\* encode (when the encoder is usable), exportFrame.close(), frameIndex++,
\* onProgress
EncodeFrame ==
  /\ pc = "backpressure"
  /\ ~QueueFull
  /\ IF MaySubmit
     THEN /\ encodeQueue' = encodeQueue + 1
          /\ submitted' = Append(submitted, ExportFrame(frameIndex))
     ELSE UNCHANGED <<encodeQueue, submitted>>
  /\ openFrames' = openFrames \ {CanvasFrame(frameIndex)}
  /\ closedFrames' = closedFrames \cup {CanvasFrame(frameIndex)}
  /\ frameIndex' = frameIndex + 1
  /\ progress' = Progress(frameIndex + 1)
  /\ progressCalls' = progressCalls + 1
  /\ pc' = "loopHead"
  /\ UNCHANGED <<cancelled, field, created, released, encState, videoLoaded,
                 readyState, currentTime, cfgFrameRate, srcFrameRate,
                 durationMs, badFrames, totalFrames, emitted, chunkCount,
                 muxCalls, muxPending, flushDone, finalizeCalled, initLog,
                 result, skips, cancelCalls, cancelAt, encoderErrored,
                 hwAccel, probes, rendered, failures, faultyChunks, muxErrors,
                 videoDescription, videoColorSpace, encoderMeta,
                 firstChunkMeta, hostVars, decoderVars,
                 effectsButFrames>>

\* ------------------------------------------------ export(): finalization
\* if (this.cancelled) return { success: false, error: 'Export cancelled' }
ReturnCancelled ==
  /\ pc = "afterLoop"
  /\ cancelled
  /\ Return(Failure(CANCELLED_MARKER))
  /\ ReturnUnchanged

\* finalization that does not wait for the mux promises
JoinPcNoWait == "afterJoin"

\* await Promise.all(this.muxingPromises) suspends while a promise is
\* unsettled
JoinPc == IF muxPending = 0 THEN "afterJoin" ELSE "joinWait"

\* if (this.encoder && state === 'configured') await this.encoder.flush()
StartFlush ==
  /\ pc = "afterLoop"
  /\ ~cancelled
  /\ pc' = IF MaySubmit THEN "flushWait" ELSE JoinPc
  /\ UNCHANGED readyState
  /\ OnlyPcAndReadyState

\* flush() resolves once every submitted frame has been emitted
FlushResolve ==
  /\ pc = "flushWait"
  /\ encState = "configured"
  /\ emitted = Len(submitted)
  /\ flushDone' = TRUE
  /\ pc' = JoinPc
  /\ UNCHANGED <<cancelled, field, created, released, encState, videoLoaded,
                 readyState, currentTime, cfgFrameRate, srcFrameRate,
                 durationMs, badFrames, totalFrames, frameIndex, encodeQueue,
                 submitted, emitted, chunkCount, muxCalls, muxPending,
                 finalizeCalled, initLog, progress, progressCalls, result,
                 skips, cancelCalls, cancelAt, encoderErrored, hwAccel,
                 probes, rendered, failures, faultyChunks, muxErrors,
                 videoDescription, videoColorSpace, encoderMeta,
                 firstChunkMeta, hostVars, decoderVars, effectVars>>

\* closing the encoder (close() or an encoder error) rejects the pending
\* flush(); the catch block returns the exception's message
FlushReject ==
  /\ pc = "flushWait"
  /\ encState = "closed"
  /\ Return(Failure(IF encoderErrored THEN "EncodingError" ELSE "AbortError"))
  /\ ReturnUnchanged

\* Promise.all(this.muxingPromises) resolved
JoinResolve ==
  /\ pc = "joinWait"
  /\ muxPending = 0
  /\ pc' = "afterJoin"
  /\ UNCHANGED readyState
  /\ OnlyPcAndReadyState

\* if (!this.muxer) throw ...; await this.muxer.finalize()
StartFinalize ==
  /\ pc = "afterJoin"
  /\ IF field["muxer"]
     THEN /\ pc' = "finalizeWait"
          /\ finalizeCalled' = TRUE
          /\ UNCHANGED <<cancelled, field, created, released, encState,
                         videoLoaded, readyState, currentTime, cfgFrameRate,
                         srcFrameRate, durationMs, badFrames, totalFrames,
                         frameIndex, encodeQueue, submitted, emitted,
                         chunkCount, muxCalls, muxPending, flushDone, initLog,
                         progress, progressCalls, result, skips, cancelCalls,
                         cancelAt, encoderErrored, hwAccel, probes, rendered,
                         failures, faultyChunks, muxErrors, videoDescription,
                         videoColorSpace, encoderMeta, firstChunkMeta,
                         hostVars, decoderVars, effectVars>>
     ELSE /\ Return(Failure("Muxer was destroyed before finalization"))
          /\ ReturnUnchanged

\* muxer.finalize() resolved with the blob: return { success: true, blob }
FinalizeResolve ==
  /\ pc = "finalizeWait"
  /\ Return(Success)
  /\ ReturnUnchanged

FinalizeReject ==
  /\ pc = "finalizeWait"
  /\ FatalReturn("finalize", "Finalize failed")

\* --------------------------------------------------- encoder callbacks
\* a mux write that reaches the muxer ahead of the writes dispatched before
MuxCallsAfterOvertaking(calls, c) == <<c>> \o calls

\* the addVideoChunk calls after the output callback handed over chunk c:
\* the async function runs up to its first await inside the callback
MuxCallsAfter(calls, c) == Append(calls, c)

\* the meta argument of the output callback for the chunk with emission
\* number k: the encoder sends its decoderConfig with the first output
EncoderMetaOf(k) ==
  IF k = 0
  THEN [decoderConfig |-> TRUE, codec |-> "avc1.640033", codedSize |-> TRUE,
        description |-> encoderMeta.description,
        colorSpace |-> IF encoderMeta.colorSpace
                       THEN EncoderColorSpace ELSE UndefinedColorSpace]
  ELSE NoDecoderConfig

\* this.videoDescription and this.videoColorSpace after the capture at the
\* top of the output callback
DescriptionAfter(meta) == videoDescription \/ meta.description
ColorSpaceAfter(meta) ==
  IF meta.colorSpace # UndefinedColorSpace
        /\ videoColorSpace = UndefinedColorSpace
  THEN meta.colorSpace
  ELSE videoColorSpace

\* the metadata object built for the first chunk
FirstChunkMetadata(meta) ==
  [decoderConfig |-> TRUE, codec |-> "avc1.640033", codedSize |-> TRUE,
   description |-> TRUE,
   colorSpace |-> IF ColorSpaceAfter(meta) # UndefinedColorSpace
                  THEN ColorSpaceAfter(meta) ELSE DefaultColorSpace]

\* the second argument of addVideoChunk
MuxMetadata(isFirstChunk, meta) ==
  IF isFirstChunk /\ DescriptionAfter(meta)
  THEN FirstChunkMetadata(meta)
  ELSE meta

\* output callback: the description and colour space are captured,
\* chunkCount++, the mux write is dispatched and pushed, encodeQueue--.
\* The encoder emits chunks in submission order.
EncoderOutput ==
  /\ pc \in SuspendPcs
  /\ encState = "configured"
  /\ emitted < Len(submitted)
  /\ emitted' = emitted + 1
  /\ videoDescription' = DescriptionAfter(EncoderMetaOf(emitted))
  /\ videoColorSpace' = ColorSpaceAfter(EncoderMetaOf(emitted))
  /\ chunkCount' = chunkCount + 1
  /\ muxCalls' = IF field["muxer"]
                 THEN MuxCallsAfter(muxCalls, submitted[emitted + 1].index)
                 ELSE muxCalls
  /\ firstChunkMeta' =
       IF field["muxer"] /\ muxCalls = <<>>
       THEN MuxMetadata(chunkCount = 0, EncoderMetaOf(emitted))
       ELSE firstChunkMeta
  /\ muxPending' = muxPending + 1
  /\ muxErrors' = IF field["muxer"] THEN muxErrors ELSE muxErrors + 1
  /\ encodeQueue' = encodeQueue - 1
  /\ UNCHANGED <<pc, cancelled, field, created, released, encState,
                 videoLoaded, readyState, currentTime, cfgFrameRate,
                 srcFrameRate, durationMs, badFrames, totalFrames, frameIndex,
                 submitted, flushDone, finalizeCalled, initLog, progress,
                 progressCalls, result, skips, cancelCalls, cancelAt,
                 encoderErrored, hwAccel, probes, rendered, failures,
                 faultyChunks, encoderMeta, hostVars, decoderVars,
                 effectVars>>

\* error callback: the encoder closed itself on an encoding failure;
\* this.cancelled = true
EncoderError ==
  /\ pc \in SuspendPcs
  /\ encState = "configured"
  /\ emitted < Len(submitted)
  /\ encState' = "closed"
  /\ cancelled' = TRUE
  /\ encoderErrored' = TRUE
  /\ UNCHANGED <<pc, field, created, released, videoLoaded, readyState,
                 currentTime, cfgFrameRate, srcFrameRate, durationMs,
                 badFrames, totalFrames, frameIndex, encodeQueue, submitted,
                 emitted, chunkCount, muxCalls, muxPending, flushDone,
                 finalizeCalled, initLog, progress, progressCalls, result,
                 skips, cancelCalls, cancelAt, hwAccel, probes, rendered,
                 failures, faultyChunks, muxErrors, videoDescription,
                 videoColorSpace, encoderMeta, firstChunkMeta, hostVars,
                 decoderVars, effectVars>>

\* the number, in emission order, of the oldest mux write still pending;
\* the muxer completes its writes in the order it received them
OldestPending == emitted - muxPending

\* a mux failure treated like an encoder failure: it sets this.cancelled
MuxSettleFailureCancels ==
  /\ pc \in SuspendPcs \cup {"returned"}
  /\ muxPending > 0
  /\ muxPending' = muxPending - 1
  /\ muxErrors' = IF OldestPending \in faultyChunks
                  THEN muxErrors + 1 ELSE muxErrors
  /\ cancelled' = (cancelled \/ OldestPending \in faultyChunks)
  /\ UNCHANGED <<pc, field, created, released, encState, videoLoaded,
                 readyState, currentTime, cfgFrameRate, srcFrameRate,
                 durationMs, badFrames, totalFrames, frameIndex, encodeQueue,
                 submitted, emitted, chunkCount, muxCalls, flushDone,
                 finalizeCalled, initLog, progress, progressCalls, result,
                 skips, cancelCalls, cancelAt, encoderErrored, hwAccel,
                 probes, rendered, failures, faultyChunks, videoDescription,
                 videoColorSpace, encoderMeta, firstChunkMeta, hostVars,
                 decoderVars, effectVars>>

\* the oldest pending mux write settled: addVideoChunk resolved, or it
\* rejected and the catch block of the async function logged
\* 'Muxing error'; the muxing promise itself resolves in both cases
MuxSettle ==
  /\ pc \in SuspendPcs \cup {"returned"}
  /\ muxPending > 0
  /\ muxPending' = muxPending - 1
  /\ muxErrors' = IF OldestPending \in faultyChunks
                  THEN muxErrors + 1 ELSE muxErrors
  /\ UNCHANGED <<pc, cancelled, field, created, released, encState,
                 videoLoaded, readyState, currentTime, cfgFrameRate,
                 srcFrameRate, durationMs, badFrames, totalFrames, frameIndex,
                 encodeQueue, submitted, emitted, chunkCount, muxCalls,
                 flushDone, finalizeCalled, initLog, progress, progressCalls,
                 result, skips, cancelCalls, cancelAt, encoderErrored,
                 hwAccel, probes, rendered, failures, faultyChunks,
                 videoDescription, videoColorSpace, encoderMeta,
                 firstChunkMeta, hostVars, decoderVars, effectVars>>

\* ------------------------------------------------------- specifications
ExportStep ==
  \/ ExportStart \/ LoadVideoResolve \/ LoadVideoReject
  \/ RendererInitResolve \/ RendererInitReject
  \/ ProbeHardware \/ ProbeSoftware
  \/ MuxerInitResolve \/ MuxerInitReject
  \/ LoopHead \/ Seeked \/ SeekSettled \/ AfterSeek \/ CheckReady
  \/ CreateFrameFails \/ RenderFrame \/ RenderFrameFails
  \/ BackpressureWait \/ BackpressureTimer \/ EncodeFrame
  \/ ReturnCancelled \/ StartFlush \/ FlushResolve \/ FlushReject
  \/ JoinResolve \/ StartFinalize \/ FinalizeResolve \/ FinalizeReject

Next ==
  \/ ExportStep
  \/ cancel
  \/ VideoDataReady
  \/ EncoderOutput
  \/ EncoderError
  \/ MuxSettle

Spec == Init /\ [][Next]_vars

\* The event loop serves every queued task: a step of export() that stays
\* possible is taken, and encoder output, mux completion and decoding, which
\* become possible again each time export() suspends, are not starved.
\* cancel() and the encoder error are not forced.
FairSpec ==
  /\ Spec
  /\ WF_vars(ExportStep)
  /\ SF_vars(EncoderOutput)
  /\ SF_vars(MuxSettle)
  /\ SF_vars(VideoDataReady)

\* ---------------------------------------------------------- VideoEditor
\* The component holds one reference, exporterRef, and starts an export by
\* constructing a new VideoExporter per call of handleExport.  Here each
\* exporter is seen from outside: it runs from the call of export() until
\* export() returns.

HostInit ==
  /\ Init
  /\ durationMs = ShortMs
  /\ cfgFrameRate = 0
  /\ badFrames = {}
  /\ faultyChunks = {}
  /\ encoderMeta = [description |-> TRUE, colorSpace |-> TRUE]

\* the finally block of handleExport
HandleExportFinally ==
  /\ isExporting' = FALSE
  /\ exporterRef' = 0

\* handleExport up to `await exporter.export()`.  The export button is
\* behind the export dialog while the dialog is shown.
handleExport ==
  /\ ~showExportDialog
  /\ \E n \in ExportCalls :
       /\ exportCall[n] = "none"
       /\ \A k \in ExportCalls : k < n => exportCall[k] # "none"
       /\ showExportDialog' = TRUE
       /\ isExporting' = TRUE
       /\ exporterRef' = n
       /\ exporterState' = [exporterState EXCEPT ![n] = "running"]
       /\ exportCall' = [exportCall EXCEPT ![n] = "awaitExport"]
  /\ UNCHANGED <<exporterCancelled, exporterVars, decoderVars, effectVars>>

\* export() of exporter n returned: on success handleExport goes on to
\* save the blob, otherwise it reports the error and runs its finally block
ExportReturns(n) ==
  /\ exportCall[n] = "awaitExport"
  /\ exporterState[n] = "running"
  /\ exporterState' = [exporterState EXCEPT ![n] = "returned"]
  /\ \E success \in BOOLEAN :
       IF success
       THEN /\ exportCall' = [exportCall EXCEPT ![n] = "awaitSave"]
            /\ UNCHANGED <<isExporting, exporterRef>>
       ELSE /\ exportCall' = [exportCall EXCEPT ![n] = "done"]
            /\ HandleExportFinally
  /\ UNCHANGED <<showExportDialog, exporterCancelled, exporterVars,
                 decoderVars, effectVars>>

\* blob.arrayBuffer() and saveExportedVideo() resolved, then the finally
\* block
SaveReturns(n) ==
  /\ exportCall[n] = "awaitSave"
  /\ exportCall' = [exportCall EXCEPT ![n] = "done"]
  /\ HandleExportFinally
  /\ UNCHANGED <<showExportDialog, exporterState, exporterCancelled,
                 exporterVars, decoderVars, effectVars>>

\* the cancel button of the export dialog
handleCancelExport ==
  /\ showExportDialog
  /\ exporterRef # 0
  /\ exporterCancelled' = [exporterCancelled EXCEPT ![exporterRef] = TRUE]
  /\ showExportDialog' = FALSE
  /\ isExporting' = FALSE
  /\ UNCHANGED <<exporterRef, exportCall, exporterState, exporterVars,
                 decoderVars, effectVars>>

\* onClose of the export dialog
CloseExportDialog ==
  /\ showExportDialog
  /\ showExportDialog' = FALSE
  /\ UNCHANGED <<exporterRef, isExporting, exportCall, exporterState,
                 exporterCancelled, exporterVars, decoderVars, effectVars>>

HostNext ==
  \/ handleExport
  \/ \E n \in ExportCalls : ExportReturns(n)
  \/ \E n \in ExportCalls : SaveReturns(n)
  \/ handleCancelExport
  \/ CloseExportDialog

HostSpec == HostInit /\ [][HostNext]_vars

\* ----------------------------------------------------- VideoFileDecoder
\* loadVideo() with tryLoadMetadata, detectFrameRate and measureFrameRate,
\* and the video element they play.  Media times are in ms.  The 2000 ms
\* timeout may fire at any point of the sampling: playback can stall.

decoderInputs ==
  <<sidecar, hasFrameCallback, frameInterval, videoDuration, requestedRate>>
elementVars == <<vPaused, vTime, elementOps, seekFrame>>
samplingVars == <<lastTime, frameCount, frameTimes>>
deliveryVars == <<delivered, detectionPath, infoFrameRate>>

\* Math.round(n / d) for n, d > 0
RoundDiv(n, d) == (2 * n + d) \div (2 * d)

\* sorted[Math.floor(sorted.length / 2)]
Median(times) == SortSeq(times, LAMBDA x, y : x < y)[(Len(times) \div 2) + 1]

\* Math.round(1 / medianTime), frame times in ms
MeasuredFps(times) == RoundDiv(1000, Median(times))

\* commonFps.reduce((prev, curr) =>
\*   Math.abs(curr - fps) < Math.abs(prev - fps) ? curr : prev)
RECURSIVE ClosestFrom(_, _, _)
ClosestFrom(k, prev, fps) ==
  IF k > Len(CommonFps)
  THEN prev
  ELSE ClosestFrom(k + 1,
                   IF Abs(CommonFps[k] - fps) < Abs(prev - fps)
                   THEN CommonFps[k] ELSE prev,
                   fps)
ClosestCommonFps(fps) == ClosestFrom(2, CommonFps[1], fps)

\* guessFrameRateFromDuration, duration in ms
guessFrameRateFromDuration(duration) ==
  IF duration < 5000 THEN 60 ELSE IF duration > 120000 THEN 30 ELSE 60

\* what tryLoadMetadata returns (0 for null)
MetadataFps(sc) == IF sc.kind = "ok" /\ sc.fps > 0 THEN sc.fps ELSE 0

\* resolve(fps) of detectFrameRate: the first call settles the promise, the
\* listener of loadVideo stores the rate in this.info and resolves
\* loadVideo; later calls have no effect
Deliver(fps, path) ==
  IF delivered
  THEN UNCHANGED <<ldPc, deliveryVars>>
  ELSE /\ delivered' = TRUE
       /\ detectionPath' = path
       /\ infoFrameRate' = fps
       /\ ldPc' = "resolved"

\* document.createElement('video'), src, preload; tryLoadMetadata starts
loadVideo ==
  /\ ldPc = "idle"
  /\ ldPc' = "fetchMeta"
  /\ UNCHANGED <<exporterVars, hostVars, decoderInputs, elementVars,
                 samplingVars, deliveryVars, metadataFrameRate,
                 wasCurrentTime, playPromise, callbackRequested, frameDue,
                 frameMediaTime, timerArmed, dropped, exportRate, effectVars>>

\* await this.tryLoadMetadata(videoUrl); the listeners are added
tryLoadMetadata ==
  /\ ldPc = "fetchMeta"
  /\ ldPc' = "waitMetadata"
  /\ metadataFrameRate' = MetadataFps(sidecar)
  /\ UNCHANGED <<exporterVars, hostVars, decoderInputs, elementVars,
                 samplingVars, deliveryVars, wasCurrentTime, playPromise,
                 callbackRequested, frameDue, frameMediaTime, timerArmed,
                 dropped, exportRate, effectVars>>

\* the 'error' event of the element
ElementError ==
  /\ ldPc = "waitMetadata"
  /\ ldPc' = "rejected"
  /\ UNCHANGED <<exporterVars, hostVars, decoderInputs, elementVars,
                 samplingVars, deliveryVars, metadataFrameRate,
                 wasCurrentTime, playPromise, callbackRequested, frameDue,
                 frameMediaTime, timerArmed, dropped, exportRate, effectVars>>

\* the 'loadedmetadata' listener: the sidecar's rate when there is one,
\* otherwise detectFrameRate, which measures at once or waits for 'canplay'
LoadedMetadata ==
  /\ ldPc = "waitMetadata"
  /\ IF metadataFrameRate > 0
     THEN /\ infoFrameRate' = metadataFrameRate
          /\ ldPc' = "resolved"
          /\ UNCHANGED <<delivered, detectionPath>>
     ELSE /\ \E ready \in BOOLEAN :
               ldPc' = IF ready THEN "measure" ELSE "waitCanplay"
          /\ UNCHANGED deliveryVars
  /\ UNCHANGED <<exporterVars, hostVars, decoderInputs, elementVars,
                 samplingVars, metadataFrameRate, wasCurrentTime,
                 playPromise, callbackRequested, frameDue, frameMediaTime,
                 timerArmed, dropped, exportRate, effectVars>>

\* the 'canplay' event
CanPlay ==
  /\ ldPc = "waitCanplay"
  /\ ldPc' = "measure"
  /\ UNCHANGED <<exporterVars, hostVars, decoderInputs, elementVars,
                 samplingVars, deliveryVars, metadataFrameRate,
                 wasCurrentTime, playPromise, callbackRequested, frameDue,
                 frameMediaTime, timerArmed, dropped, exportRate, effectVars>>

\* measureFrameRate without requestVideoFrameCallback: the duration guess
MeasureWithoutCallback ==
  /\ ldPc = "measure"
  /\ ~hasFrameCallback
  /\ Deliver(guessFrameRateFromDuration(videoDuration), "guessNoApi")
  /\ UNCHANGED <<exporterVars, hostVars, decoderInputs, elementVars,
                 samplingVars, metadataFrameRate, wasCurrentTime,
                 playPromise, callbackRequested, frameDue, frameMediaTime,
                 timerArmed, dropped, exportRate, effectVars>>

\* measureFrameRate: wasCurrentTime = currentTime; currentTime = 0; play();
\* setTimeout(..., 2000)
MeasureStart ==
  /\ ldPc = "measure"
  /\ hasFrameCallback
  /\ ldPc' = "measuring"
  /\ wasCurrentTime' = vTime
  /\ vTime' = 0
  /\ vPaused' = FALSE
  /\ playPromise' = "pending"
  /\ timerArmed' = TRUE
  /\ elementOps' = elementOps + 2
  /\ UNCHANGED <<exporterVars, hostVars, decoderInputs, samplingVars,
                 deliveryVars, metadataFrameRate, callbackRequested,
                 frameDue, frameMediaTime, dropped, exportRate, seekFrame,
                 effectVars>>

\* detectFrameRate rejected (a throw inside its executor): the catch block
\* of the listener keeps the default, 60
DetectionThrows ==
  /\ ldPc = "measure"
  /\ hasFrameCallback
  /\ ldPc' = "resolved"
  /\ infoFrameRate' = 60
  /\ detectionPath' = "threw"
  /\ UNCHANGED <<exporterVars, hostVars, decoderInputs, elementVars,
                 samplingVars, delivered, metadataFrameRate, wasCurrentTime,
                 playPromise, callbackRequested, frameDue, frameMediaTime,
                 timerArmed, dropped, exportRate, effectVars>>

\* video.play() fulfilled: requestVideoFrameCallback(measureFrame)
PlayFulfilled ==
  /\ playPromise = "pending"
  /\ ~vPaused
  /\ playPromise' = "fulfilled"
  /\ callbackRequested' = TRUE
  /\ UNCHANGED <<exporterVars, hostVars, decoderInputs, elementVars,
                 samplingVars, deliveryVars, ldPc, metadataFrameRate,
                 wasCurrentTime, frameDue, frameMediaTime, timerArmed,
                 dropped, exportRate, effectVars>>

\* video.play() rejected (playback not allowed, or aborted by a pause):
\* resolve(guess); the element is not touched
PlayRejected ==
  /\ playPromise = "pending"
  /\ playPromise' = "rejected"
  /\ vPaused' = TRUE
  /\ Deliver(guessFrameRateFromDuration(videoDuration), "guessRejected")
  /\ UNCHANGED <<exporterVars, hostVars, decoderInputs, samplingVars,
                 metadataFrameRate, wasCurrentTime, callbackRequested,
                 frameDue, frameMediaTime, timerArmed, dropped, exportRate,
                 vTime, elementOps, seekFrame, effectVars>>

\* playback presents the next frame (once, it skips one); a registered
\* callback becomes due
FramePlayed ==
  /\ ~vPaused
  /\ playPromise = "fulfilled"
  /\ ~frameDue
  /\ \E k \in IF dropped THEN {1} ELSE {1, 2} :
       /\ vTime + k * frameInterval <= videoDuration
       /\ vTime' = vTime + k * frameInterval
       /\ dropped' = (dropped \/ k = 2)
  /\ frameMediaTime' = vTime'
  /\ frameDue' = callbackRequested
  /\ callbackRequested' = FALSE
  /\ UNCHANGED <<exporterVars, hostVars, decoderInputs, samplingVars,
                 deliveryVars, ldPc, metadataFrameRate, wasCurrentTime,
                 playPromise, timerArmed, exportRate, vPaused, elementOps,
                 seekFrame, effectVars>>

\* playback reached the end of the source: the element pauses itself
VideoEnded ==
  /\ ~vPaused
  /\ playPromise = "fulfilled"
  /\ vTime + frameInterval > videoDuration
  /\ vPaused' = TRUE
  /\ UNCHANGED <<exporterVars, hostVars, decoderInputs, samplingVars,
                 deliveryVars, ldPc, metadataFrameRate, wasCurrentTime,
                 playPromise, callbackRequested, frameDue, frameMediaTime,
                 timerArmed, dropped, exportRate, vTime, elementOps,
                 seekFrame, effectVars>>

\* a seek the detection started presents the frame at the new position
SeekFramePresented ==
  /\ seekFrame
  /\ callbackRequested
  /\ seekFrame' = FALSE
  /\ frameMediaTime' = vTime
  /\ frameDue' = TRUE
  /\ callbackRequested' = FALSE
  /\ UNCHANGED <<exporterVars, hostVars, decoderInputs, samplingVars,
                 deliveryVars, ldPc, metadataFrameRate, wasCurrentTime,
                 playPromise, timerArmed, dropped, exportRate, vPaused,
                 vTime, elementOps, effectVars>>

\* frameTimes after measureFrame looked at the frame
FrameTimesAfter ==
  IF frameCount > 0 /\ frameMediaTime - lastTime > 0
  THEN Append(frameTimes, frameMediaTime - lastTime)
  ELSE frameTimes

\* the callback measureFrame
measureFrame ==
  /\ frameDue
  /\ frameDue' = FALSE
  /\ frameTimes' = FrameTimesAfter
  /\ lastTime' = frameMediaTime
  /\ frameCount' = frameCount + 1
  /\ IF frameCount + 1 < maxFrames /\ ~vPaused
     THEN /\ callbackRequested' = TRUE
          /\ UNCHANGED <<elementVars, deliveryVars, ldPc>>
     ELSE /\ vPaused' = TRUE
          /\ vTime' = wasCurrentTime
          /\ seekFrame' = TRUE
          /\ elementOps' = elementOps + 2
          /\ IF Len(FrameTimesAfter) > 5
             THEN Deliver(ClosestCommonFps(MeasuredFps(FrameTimesAfter)),
                          IF frameCount + 1 < maxFrames
                          THEN "measuredEarly" ELSE "measured")
             ELSE Deliver(guessFrameRateFromDuration(videoDuration),
                          "guessEarly")
          /\ UNCHANGED callbackRequested
  /\ UNCHANGED <<exporterVars, hostVars, decoderInputs, metadataFrameRate,
                 wasCurrentTime, playPromise, frameMediaTime, timerArmed,
                 dropped, exportRate, effectVars>>

\* the 2000 ms timeout
DetectionTimeout ==
  /\ timerArmed
  /\ timerArmed' = FALSE
  /\ IF frameCount < maxFrames
     THEN /\ vPaused' = TRUE
          /\ vTime' = wasCurrentTime
          /\ seekFrame' = TRUE
          /\ elementOps' = elementOps + 2
          /\ IF Len(frameTimes) > 2
             THEN Deliver(MeasuredFps(frameTimes), "measuredTimeout")
             ELSE Deliver(guessFrameRateFromDuration(videoDuration),
                          "guessTimeout")
     ELSE UNCHANGED <<elementVars, deliveryVars, ldPc>>
  /\ UNCHANGED <<exporterVars, hostVars, decoderInputs, samplingVars,
                 metadataFrameRate, wasCurrentTime, playPromise,
                 callbackRequested, frameDue, frameMediaTime, dropped,
                 exportRate, effectVars>>

\* export(): videoInfo = await loadVideo(); exportFrameRate is computed
UseVideoInfo ==
  /\ ldPc = "resolved"
  /\ ldPc' = "exporting"
  /\ exportRate' = ExportFrameRateOf(requestedRate, infoFrameRate)
  /\ UNCHANGED <<exporterVars, hostVars, decoderInputs, elementVars,
                 samplingVars, deliveryVars, metadataFrameRate,
                 wasCurrentTime, playPromise, callbackRequested, frameDue,
                 frameMediaTime, timerArmed, dropped, effectVars>>

\* export(): seekToTime of the extraction loop
ExporterSeek ==
  /\ ldPc = "exporting"
  /\ \E t \in ExporterSeekTimes : vTime # t /\ vTime' = t
  /\ UNCHANGED <<exporterVars, hostVars, decoderInputs, samplingVars,
                 deliveryVars, ldPc, metadataFrameRate, wasCurrentTime,
                 playPromise, callbackRequested, frameDue, frameMediaTime,
                 timerArmed, dropped, exportRate, vPaused, elementOps,
                 seekFrame, effectVars>>

DetectInit ==
  /\ ExporterInit
  /\ durationMs = ShortMs
  /\ badFrames = {}
  /\ faultyChunks = {}
  /\ encoderMeta = [description |-> TRUE, colorSpace |-> TRUE]
  /\ EditorInit
  /\ DecoderInit
  /\ EffectsAtRest

DetectNext ==
  \/ loadVideo \/ tryLoadMetadata \/ ElementError \/ LoadedMetadata
  \/ CanPlay \/ MeasureWithoutCallback \/ MeasureStart \/ DetectionThrows
  \/ PlayFulfilled \/ PlayRejected \/ FramePlayed \/ VideoEnded
  \/ SeekFramePresented \/ measureFrame \/ DetectionTimeout
  \/ UseVideoInfo \/ ExporterSeek

DetectSpec == DetectInit /\ [][DetectNext]_vars

\* ------------------------------------------------------ animation driver
\* FrameRenderer.updateAnimationState, called once per exported frame, and
\* the ticker of the preview, which runs the same computation.  The
\* constants and the two functions of the effect model that the driver
\* imports are written from their contracts.

\* SMOOTHING_FACTOR, in hundredths
SMOOTHING_FACTOR == 12
\* MIN_DELTA, in units of 1e-5
MIN_DELTA == 10
\* length of the ease window of a zoom region, ms
EaseMs == 300
\* ticks of the paused preview that are explored
MaxTicks == 85

\* a * num / den, rounded towards zero
Scaled(a, num, den) ==
  IF a >= 0 THEN (a * num) \div den ELSE -(((-a) * num) \div den)

\* strength of one region at timeMs, in thousandths: 0 outside the region
\* and its ease windows, rising over the first window, falling over the last
RegionStrength(region, timeMs) ==
  LET rampStart == IF easeOutside THEN region.startMs - EaseMs
                   ELSE region.startMs
      rampEnd == IF easeOutside THEN region.endMs + EaseMs
                 ELSE region.endMs
  IN IF timeMs < rampStart \/ timeMs > rampEnd
     THEN 0
     ELSE Min(1000, Min(((timeMs - rampStart) * 1000) \div EaseMs,
                        ((rampEnd - timeMs) * 1000) \div EaseMs))

\* the regions active at timeMs, by position in the array
ActiveRegions(regions, timeMs) ==
  {i \in 1..Len(regions) : RegionStrength(regions[i], timeMs) > 0}

\* a selection that takes the first active region of the array
FirstActiveRegion(regions, timeMs) ==
  LET active == ActiveRegions(regions, timeMs)
  IN IF active = {} THEN 0
     ELSE CHOOSE i \in active : \A j \in active : i <= j

\* the active region with the smallest duration, the lowest id on a tie
\* (0 when none is active)
DominantRegion(regions, timeMs) ==
  LET active == ActiveRegions(regions, timeMs)
      Duration(i) == regions[i].endMs - regions[i].startMs
      Before(i, j) ==
        \/ Duration(i) < Duration(j)
        \/ Duration(i) = Duration(j) /\ regions[i].id <= regions[j].id
  IN IF active = {} THEN 0
     ELSE CHOOSE i \in active : \A j \in active : Before(i, j)

\* findDominantRegion(regions, timeMs): { region, strength }
findDominantRegion(regions, timeMs) ==
  LET i == DominantRegion(regions, timeMs)
  IN [region |-> i,
      strength |-> IF i = 0 THEN 0 ELSE RegionStrength(regions[i], timeMs)]

\* half the extent 1/scale of the visible window, for scale > 1
HalfWindow(scale) == (Unit * 5000) \div (scale \div 10)

\* one coordinate clamped to [lo, hi]
ClampTo(v, lo, hi) == Max(lo, Min(hi, v))

\* clampFocusToStage of focusUtils
clampFocusToStageUtil(focus, depth) ==
  LET scale == ZOOM_DEPTH_SCALES[depth]
      half == HalfWindow(scale)
  IN IF scale <= Unit
     THEN [cx |-> Unit \div 2, cy |-> Unit \div 2]
     ELSE [cx |-> ClampTo(focus.cx, half, Unit - half),
           cy |-> ClampTo(focus.cy, half, Unit - half)]

\* clampFocusToStage taking its branch for a missing layoutCache
clampFocusToStageNoLayout(focus, depth) == focus

\* FrameRenderer.clampFocusToStage; layoutCache is set by the updateLayout
\* call that precedes every updateAnimationState
clampFocusToStage(focus, depth) == clampFocusToStageUtil(focus, depth)

\* the target of the tick at timeMs: identity without a dominant region
\* (or, in the paused preview, with a selected zoom), else the region's
\* scale and clamped focus interpolated by strength
Target(timeMs, unzoomed) ==
  LET dom == findDominantRegion(zoomRegions, timeMs)
  IN IF dom.region # 0 /\ dom.strength > 0 /\ ~unzoomed
     THEN LET region == zoomRegions[dom.region]
              zoomScale == ZOOM_DEPTH_SCALES[region.depth]
              regionFocus == clampFocusToStage(region.focus, region.depth)
          IN [scale |-> Unit + Scaled(zoomScale - Unit, dom.strength, 1000),
              focusX |-> DEFAULT_FOCUS.cx
                         + Scaled(regionFocus.cx - DEFAULT_FOCUS.cx,
                                  dom.strength, 1000),
              focusY |-> DEFAULT_FOCUS.cy
                         + Scaled(regionFocus.cy - DEFAULT_FOCUS.cy,
                                  dom.strength, 1000)]
     ELSE IdentityState

\* smoothing that never snaps to the target
SmoothedCreeping(prev, target) ==
  prev + Scaled(target - prev, SMOOTHING_FACTOR, 100)

\* one component of the next state: a step of SMOOTHING_FACTOR towards the
\* target while the delta exceeds MIN_DELTA, else the target itself
Smoothed(prev, target) ==
  IF Abs(target - prev) > MIN_DELTA
  THEN prev + Scaled(target - prev, SMOOTHING_FACTOR, 100)
  ELSE target

\* the animation state after a tick towards target
NextAnimationState(state, target) ==
  [scale |-> Smoothed(state.scale, target.scale),
   focusX |-> Smoothed(state.focusX, target.focusX),
   focusY |-> Smoothed(state.focusY, target.focusY)]

\* the value updateAnimationState returns
MotionIntensityOf(prev, next) ==
  Max(Abs(next.scale - prev.scale),
      Max(Abs(next.focusX - prev.focusX), Abs(next.focusY - prev.focusY)))

\* updateAnimationState(timeMs)
updateAnimationState(timeMs, unzoomed) ==
  LET next == NextAnimationState(animationState, Target(timeMs, unzoomed))
  IN /\ animationState' = next
     /\ motionIntensity' = MotionIntensityOf(animationState, next)

\* timestamp of frame i, ms (i * frameDuration, in microseconds in the code)
FrameTimeMs(i) == (i * 1000) \div ExportFrameRate

\* renderFrame(videoFrame, timestamp) for the next frame of the loop:
\* currentVideoTime = timestamp / 1000000, one updateAnimationState
AnimRenderFrame ==
  /\ playing
  /\ FrameTimeMs(animFrame + 1) < durationMs
  /\ animFrame' = animFrame + 1
  /\ currentVideoTime' = FrameTimeMs(animFrame + 1)
  /\ updateAnimationState(FrameTimeMs(animFrame + 1), FALSE)
  /\ UNCHANGED <<exporterVars, hostVars, decoderVars, paceVars, zoomRegions,
                 easeOutside, selectedZoom, playing, pausedTicks,
                 springVars, cursorVars, maskVars, seekVars, keyVars,
                 layoutVars, trackerVars, timelineVars, frameVars,
                 playbackVars, pathVars>>

\* the preview is paused, with or without a selected zoom region
PausePlayback ==
  /\ playing
  /\ playing' = FALSE
  /\ \E selected \in BOOLEAN : selectedZoom' = selected
  /\ UNCHANGED <<exporterVars, hostVars, decoderVars, paceVars, zoomRegions,
                 easeOutside, animFrame, currentVideoTime, animationState,
                 motionIntensity, pausedTicks, springVars, cursorVars,
                 maskVars, seekVars, keyVars, layoutVars, trackerVars,
                 timelineVars, frameVars, playbackVars, pathVars>>

\* the ticker of the paused preview: currentTimeRef does not change
ticker ==
  /\ ~playing
  /\ pausedTicks < MaxTicks
  /\ pausedTicks' = pausedTicks + 1
  /\ updateAnimationState(currentVideoTime, selectedZoom)
  /\ UNCHANGED <<exporterVars, hostVars, decoderVars, paceVars, zoomRegions,
                 easeOutside, selectedZoom, playing, animFrame,
                 currentVideoTime, springVars, cursorVars, maskVars,
                 seekVars, keyVars, layoutVars, trackerVars, timelineVars,
                 frameVars, playbackVars, pathVars>>

AnimInit ==
  /\ ExporterInit
  /\ durationMs = LongMs
  /\ badFrames = {}
  /\ EditorInit
  /\ DecoderAtRest
  /\ AnimStart
  /\ zoomRegions \in ZoomRegionLists
  /\ easeOutside \in BOOLEAN
  /\ PaceAtRest
  /\ SpringAtRest
  /\ CursorAtRest
  /\ MaskAtRest
  /\ SeekAtRest
  /\ KeyAtRest
  /\ LayoutAtRest
  /\ TrackerAtRest
  /\ TimelineAtRest
  /\ FramesAtRest
  /\ PlaybackAtRest
  /\ PathAtRest

AnimNext == AnimRenderFrame \/ PausePlayback \/ ticker

AnimSpec == AnimInit /\ [][AnimNext]_vars

\* ------------------------------------------------ two runs, two pacings
\* Two exports of the same project render the same frame timestamps; the
\* time each spends in seeks, in the backpressure wait and in mux writes
\* differs.

\* wall-clock ms a run may spend in one stretch of waiting
WaitSteps == {700}
\* wall-clock ms of waiting explored per run
MaxWaitMs == 1400

\* a renderer that reads the wall clock
RenderTimeOfClock(timestampUs, clockMs) == clockMs

\* this.currentVideoTime = timestamp / 1000000; timeMs = it * 1000
RenderTimeMs(timestampUs, clockMs) == timestampUs \div 1000

\* const timestamp = i * frameDuration, microseconds
FrameTimestampUs(i) == (i * 1000000) \div ExportFrameRate

\* a seek, a backpressure poll or a mux write of run r takes its time
RunWaits(r) ==
  /\ \E w \in WaitSteps :
       /\ runClock[r] + w <= MaxWaitMs
       /\ runClock' = [runClock EXCEPT ![r] = @ + w]
  /\ UNCHANGED <<exporterVars, hostVars, decoderVars, animVars, runState,
                 runFrame, runTransforms, springVars, cursorVars, maskVars,
                 seekVars, keyVars, layoutVars, trackerVars, timelineVars,
                 frameVars, playbackVars, pathVars>>

\* renderFrame(videoFrame, timestamp) of run r for its next frame
RunRendersFrame(r) ==
  LET i == runFrame[r] + 1
      timeMs == RenderTimeMs(FrameTimestampUs(i), runClock[r])
      next == NextAnimationState(runState[r], Target(timeMs, FALSE))
  IN /\ FrameTimeMs(i) < durationMs
     /\ runFrame' = [runFrame EXCEPT ![r] = i]
     /\ runState' = [runState EXCEPT ![r] = next]
     /\ runTransforms' = [runTransforms EXCEPT ![r] = Append(@, next)]
     /\ UNCHANGED <<exporterVars, hostVars, decoderVars, animVars,
                    runClock, springVars, cursorVars, maskVars, seekVars,
                    keyVars, layoutVars, trackerVars, timelineVars,
                    frameVars, playbackVars, pathVars>>

PaceInit ==
  /\ ExporterInit
  /\ durationMs = LongMs
  /\ badFrames = {}
  /\ EditorInit
  /\ DecoderAtRest
  /\ AnimStart
  /\ zoomRegions \in ZoomRegionLists
  /\ easeOutside \in BOOLEAN
  /\ PaceAtRest
  /\ SpringAtRest
  /\ CursorAtRest
  /\ MaskAtRest
  /\ SeekAtRest
  /\ KeyAtRest
  /\ LayoutAtRest
  /\ TrackerAtRest
  /\ TimelineAtRest
  /\ FramesAtRest
  /\ PlaybackAtRest
  /\ PathAtRest

PaceNext == \E r \in Runs : RunWaits(r) \/ RunRendersFrame(r)

PaceSpec == PaceInit /\ [][PaceNext]_vars

\* ------------------------------------------------ SpringCursorInterpolator
\* update(targetX, targetY, currentTimeMs) and reset(), with the spring of
\* the 'cursor' preset.

\* SPRING_PRESETS.cursor: tension 180, friction 22, mass 1.2
CursorSpring == [tension |-> 180, friction |-> 22, massTenths |-> 12]

\* targets the interpolator is driven to, 1/100 px
SpringTargets == {<<10000, 5000>>, <<30000, 20000>>}
\* differences between the time of a call and the time of the call before
SpringTimeDiffs == {-101, -100, 16, 40, 500, 501}
\* calls of the interpolator that are explored
MaxSpringCalls == 4

\* springStep(current, target, velocity, config, dt), dt in ms
springStep(current, target, velocity, config, dtMs) ==
  LET force == -config.tension * (current - target)
               - config.friction * velocity
      acceleration == Scaled(force, 10, config.massTenths)
      newVelocity == velocity + Scaled(acceleration, dtMs, 1000)
  IN [position |-> current + Scaled(newVelocity, dtMs, 1000),
      velocity |-> newVelocity]

\* spring2DStep(state, targetX, targetY, config, dt)
spring2DStep(state, targetX, targetY, config, dtMs) ==
  LET xResult == springStep(state.x, targetX, state.vx, config, dtMs)
      yResult == springStep(state.y, targetY, state.vy, config, dtMs)
  IN [x |-> xResult.position, y |-> yResult.position,
      vx |-> xResult.velocity, vy |-> yResult.velocity]

\* a discontinuity test that only looks at jumps forward
IsForwardJump(timeDiff) == timeDiff > 500

\* timeDiff < -100 || timeDiff > 500
IsDiscontinuity(timeDiff) == timeDiff < -100 \/ timeDiff > 500

\* the state update() leaves and returns
SpringAfterUpdate(targetX, targetY, timeDiff) ==
  IF ~springInitialized \/ IsDiscontinuity(timeDiff)
  THEN [x |-> targetX, y |-> targetY, vx |-> 0, vy |-> 0]
  ELSE IF Min(timeDiff, 50) > 0
       THEN spring2DStep(springState, targetX, targetY, CursorSpring,
                         Min(timeDiff, 50))
       ELSE springState

\* update(targetX, targetY, currentTimeMs)
SpringUpdate ==
  /\ springCalls < MaxSpringCalls
  /\ \E target \in SpringTargets, timeDiff \in SpringTimeDiffs :
       /\ springLastTime + timeDiff >= 0
       /\ springState' = SpringAfterUpdate(target[1], target[2], timeDiff)
       /\ springLastTime' = springLastTime + timeDiff
       /\ springCall' = [kind |-> "update", targetX |-> target[1],
                         targetY |-> target[2], timeDiff |-> timeDiff,
                         first |-> ~springInitialized,
                         before |-> springState]
  /\ springInitialized' = TRUE
  /\ springCalls' = springCalls + 1
  /\ UNCHANGED <<exporterVars, hostVars, decoderVars, animVars, paceVars,
                 cursorVars, maskVars, seekVars, keyVars, layoutVars,
                 trackerVars, timelineVars, frameVars, playbackVars,
                 pathVars>>

\* reset()
SpringReset ==
  /\ springCalls < MaxSpringCalls
  /\ springInitialized
  /\ springInitialized' = FALSE
  /\ springState' = SpringZero
  /\ springCall' = [NoSpringCall EXCEPT !.kind = "reset",
                                        !.before = springState]
  /\ springCalls' = springCalls + 1
  /\ UNCHANGED <<exporterVars, hostVars, decoderVars, animVars, paceVars,
                 springLastTime, cursorVars, maskVars, seekVars, keyVars,
                 layoutVars, trackerVars, timelineVars, frameVars,
                 playbackVars, pathVars>>

SpringInit ==
  /\ ExporterInit
  /\ durationMs = LongMs
  /\ badFrames = {}
  /\ cfgFrameRate = 0
  /\ EditorInit
  /\ DecoderAtRest
  /\ AnimAtRest
  /\ PaceAtRest
  /\ SpringAtRest
  /\ CursorAtRest
  /\ MaskAtRest
  /\ SeekAtRest
  /\ KeyAtRest
  /\ LayoutAtRest
  /\ TrackerAtRest
  /\ TimelineAtRest
  /\ FramesAtRest
  /\ PlaybackAtRest
  /\ PathAtRest

SpringNext == SpringUpdate \/ SpringReset

SpringSpec == SpringInit /\ [][SpringNext]_vars

\* ------------------------------------------------- cursor overlay, ripples
\* interpolateCursorPosition and isCursorStationary of the cursor tracker,
\* FrameRenderer.drawCursor.  The recording is mapped 1:1 onto the canvas
\* (baseOffset 0, videoWidth * baseScale = screenWidth); showCursor and
\* showRipple are on, motionBlur is off (DEFAULT_CURSOR_SETTINGS).

\* cursorData.screenWidth, cursorData.screenHeight
ScreenSize == [width |-> 1920, height |-> 1080]
\* config.videoWidth, config.videoHeight: the recording is the screen
VideoSize == ScreenSize

\* cursorSettings.autoHideDelay of the project, ms
AutoHideDelayMs == 500
\* fadeDuration
FadeDurationMs == 300
\* duration of createClickRipple
RippleDurationMs == 400
\* movementThreshold of isCursorStationary, px
MovementThreshold == 5

\* one recorded sample
CursorSample(x, y, timestamp, pressed) ==
  [x |-> x, y |-> y, timestamp |-> timestamp, pressed |-> pressed]

\* a cursor that never moves and is pressed twice
StationaryClicks ==
  [k \in 1..18 |->
     CursorSample(100, 100, 10 + 250 * (k - 1), k \in {5, 6, 7, 11, 12, 13})]

\* a cursor that rests, is pressed while resting and then dragged away
RestThenDrag ==
  [k \in 1..18 |->
     CursorSample(IF k > 12 THEN 100 + 20 * (k - 12) ELSE 100, 100,
                  10 + 250 * (k - 1), k > 8)]

\* a cursor that moves and clicks, recorded for 1.26 s
MovingClicks ==
  <<CursorSample(100, 100, 10, FALSE), CursorSample(200, 150, 260, FALSE),
    CursorSample(300, 300, 510, TRUE), CursorSample(300, 300, 760, FALSE),
    CursorSample(600, 400, 1010, FALSE), CursorSample(600, 400, 1260, TRUE)>>

\* a recording of one sample
OneSample == <<CursorSample(400, 300, 10, FALSE)>>

\* the recordings explored; the tracker's first sample is taken one poll
\* after the start, so no recording starts at 0
CursorRecordings == {StationaryClicks, RestThenDrag, MovingClicks, OneSample}

\* the index the while loop of interpolateCursorPosition stops at
\* (1-based): i advances while positions[i + 1].timestamp < timeMs
SegmentIndex(positions, timeMs) ==
  CHOOSE i \in 1..Len(positions) :
    /\ i = Len(positions) \/ positions[i + 1].timestamp >= timeMs
    /\ \A j \in 1..(i - 1) : positions[j + 1].timestamp < timeMs

\* the Catmull-Rom polynomial of one coordinate, t in thousandths
CatmullRom(p0, p1, p2, p3, t) ==
  LET t2 == Scaled(t * t, 1, 1000)
      t3 == Scaled(t2 * t, 1, 1000)
  IN Scaled(2 * p1 * 1000 + (p2 - p0) * t
            + (2 * p0 - 5 * p1 + 4 * p2 - p3) * t2
            + (3 * p1 - p0 - 3 * p2 + p3) * t3, 1, 2000)

\* interpolateCursorPosition(data, timeMs)
interpolateCursorPosition(positions, timeMs) ==
  IF Len(positions) = 0 THEN NoPosition
  ELSE IF Len(positions) = 1 THEN positions[1]
  ELSE
    LET n == Len(positions)
        i == SegmentIndex(positions, timeMs)
    IN IF i >= n THEN positions[n]
       ELSE
         LET p0 == positions[Max(1, i - 1)]
             p1 == positions[i]
             p2 == positions[Min(n, i + 1)]
             p3 == positions[Min(n, i + 2)]
             span == IF p2.timestamp - p1.timestamp = 0 THEN 1
                     ELSE p2.timestamp - p1.timestamp
             t == Scaled(timeMs - p1.timestamp, 1000, span)
         IN [x |-> ClampTo(CatmullRom(p0.x, p1.x, p2.x, p3.x, t),
                           0, ScreenSize.width),
             y |-> ClampTo(CatmullRom(p0.y, p1.y, p2.y, p3.y, t),
                           0, ScreenSize.height),
             timestamp |-> timeMs,
             pressed |-> IF t < 500 THEN p1.pressed ELSE p2.pressed]

\* isCursorStationary(data, timeMs, thresholdMs)
isCursorStationary(positions, timeMs, thresholdMs) ==
  IF Len(positions) < 2 THEN FALSE
  ELSE
    LET n == Len(positions)
        upTo == {i \in 1..n : positions[i].timestamp <= timeMs}
        endIdx == IF upTo = {} THEN n
                  ELSE CHOOSE i \in upTo : \A j \in upTo : j <= i
        older == {i \in 1..endIdx :
                    positions[i].timestamp < timeMs - thresholdMs}
        startIdx == IF older = {} THEN endIdx
                    ELSE CHOOSE i \in older : \A j \in older : j <= i
    IN /\ startIdx # endIdx
       /\ \A i \in startIdx..endIdx :
            /\ Abs(positions[i].x - positions[endIdx].x)
                 <= MovementThreshold
            /\ Abs(positions[i].y - positions[endIdx].y)
                 <= MovementThreshold

\* createClickRipple(x, y, startTime)
createClickRipple(x, y, startTime) ==
  [x |-> x, y |-> y, startTime |-> startTime,
   duration |-> RippleDurationMs]

\* clickRipples.filter(r => (timeMs - r.startTime) < r.duration)
ActiveRipples(ripples, timeMs) ==
  SelectSeq(ripples, LAMBDA r : timeMs - r.startTime < r.duration)

\* the opacity the auto-hide branch leaves for a stationary cursor
FadedOpacity(timeMs) ==
  IF timeMs - lastCursorMoveTime > AutoHideDelayMs
  THEN Max(0, 1000 - Scaled(timeMs - lastCursorMoveTime - AutoHideDelayMs,
                            1000, FadeDurationMs))
  ELSE cursorOpacity

\* the frame returns at 'if (this.cursorOpacity <= 0) return'
CursorHidden(timeMs) ==
  /\ autoHide
  /\ isCursorStationary(cursorData, timeMs, AutoHideDelayMs)
  /\ FadedOpacity(timeMs) <= 0

\* the mapping of a recorded position onto the stage that spans the
\* cropped video
CursorTargetOfCropped(pos) ==
  [x |-> layoutCache.baseOffset.x * 100
         + Scaled(Scaled(pos.x * layoutCache.videoSize.width, 1,
                         ScreenSize.width), layoutCache.baseScale, 10),
   y |-> layoutCache.baseOffset.y * 100
         + Scaled(Scaled(pos.y * layoutCache.videoSize.height, 1,
                         ScreenSize.height), layoutCache.baseScale, 10)]

\* rawX = offset.x + (cursorPos.x / cursorData.screenWidth) * videoW * scale
\* with videoW = config.videoWidth, and rawY likewise; 1/100 px
CursorTargetOf(pos) ==
  [x |-> layoutCache.baseOffset.x * 100
         + Scaled(Scaled(pos.x * VideoSize.width, 1, ScreenSize.width),
                  layoutCache.baseScale, 10),
   y |-> layoutCache.baseOffset.y * 100
         + Scaled(Scaled(pos.y * VideoSize.height, 1, ScreenSize.height),
                  layoutCache.baseScale, 10)]

\* drawCursor(ctx) of the next frame of the export loop
drawCursor ==
  /\ cursorData # <<>>
  /\ layoutCache # NoLayout
  /\ FrameTimeMs(cursorFrame + 1) < durationMs
  /\ LET timeMs == FrameTimeMs(cursorFrame + 1)
         pos == interpolateCursorPosition(cursorData, timeMs)
         stationary ==
           autoHide /\ isCursorStationary(cursorData, timeMs, AutoHideDelayMs)
         moved == autoHide /\ ~stationary
         raw == CursorTargetOf(pos)
         after == SpringAfterUpdate(raw.x, raw.y, timeMs - springLastTime)
         pushed == IF pos.pressed /\ ~lastPressed
                   THEN Append(clickRipples,
                               createClickRipple(after.x, after.y, timeMs))
                   ELSE clickRipples
     IN /\ cursorFrame' = cursorFrame + 1
        /\ cursorTimeMs' = timeMs
        /\ cursorPos' = pos
        /\ prevFramePressed' = cursorPos.pressed
        /\ cursorOpacity' = IF moved THEN 1000
                            ELSE IF stationary THEN FadedOpacity(timeMs)
                            ELSE cursorOpacity
        /\ lastCursorMoveTime' = IF moved THEN timeMs
                                 ELSE lastCursorMoveTime
        /\ IF CursorHidden(timeMs)
           THEN /\ rippleCreated' = FALSE
                /\ UNCHANGED <<lastPressed, clickRipples, springVars,
                               cursorTarget>>
           ELSE /\ cursorTarget' = raw
                /\ springState' = after
                /\ springLastTime' = timeMs
                /\ springInitialized' = TRUE
                /\ rippleCreated' = (pos.pressed /\ ~lastPressed)
                /\ lastPressed' = pos.pressed
                /\ clickRipples' = ActiveRipples(pushed, timeMs)
                /\ UNCHANGED <<springCall, springCalls>>
  /\ UNCHANGED <<exporterVars, hostVars, decoderVars, animVars, paceVars,
                 cursorData, autoHide, maskVars, seekVars, keyVars,
                 canvasSize, cropRegion, padding, layoutCache, trackerVars,
                 timelineVars, frameVars, playbackVars, pathVars>>

CursorInit ==
  /\ ExporterInit
  /\ durationMs = LongMs
  /\ badFrames = {}
  /\ EditorInit
  /\ DecoderAtRest
  /\ AnimAtRest
  /\ PaceAtRest
  /\ SpringAtRest
  /\ CursorStart
  /\ cursorData \in CursorRecordings
  /\ autoHide \in BOOLEAN
  /\ MaskAtRest
  /\ SeekAtRest
  /\ KeyAtRest
  /\ LayoutAtRest
  /\ TrackerAtRest
  /\ TimelineAtRest
  /\ FramesAtRest
  /\ PlaybackAtRest
  /\ PathAtRest

CursorNext == drawCursor

CursorSpec == CursorInit /\ [][CursorNext]_vars

\* ---------------------------------------------------------- the video mask
\* FrameRenderer.updateLayout draws the mask of the video into maskGraphics:
\* drawSquircleMask, drawRoundedMask or a plain rect.  drawSquirclePath of
\* the preview is the same code on a Graphics passed as argument.

\* radii of the project (times baseScale), the last beyond half the height
MaskRadii == {0, 1200, 60000}
\* sizes of the cropped video on the canvas
MaskRects == {[width |-> 192000, height |-> 108000],
              [width |-> 64000, height |-> 64000]}

\* one drawing command of a Graphics
PathCommand(op, pts, radius) == [op |-> op, pts |-> pts, radius |-> radius]
moveTo(x, y) == PathCommand("moveTo", <<<<x, y>>>>, 0)
lineTo(x, y) == PathCommand("lineTo", <<<<x, y>>>>, 0)
bezierCurveTo(c1x, c1y, c2x, c2y, x, y) ==
  PathCommand("bezierCurveTo", <<<<c1x, c1y>>, <<c2x, c2y>>, <<x, y>>>>, 0)
arcTo(x1, y1, x2, y2, radius) ==
  PathCommand("arcTo", <<<<x1, y1>>, <<x2, y2>>>>, radius)
closePath == PathCommand("closePath", <<>>, 0)
fill == PathCommand("fill", <<>>, 0)

\* a corner that is rounded whether enabled or not
CornerRadiusAlways(enabled, r) == r

\* corners.tl ? r : 0
CornerRadius(enabled, r) == IF enabled THEN r ELSE 0

\* the commands of drawSquircleMask up to closePath
SquirclePath(x, y, width, height, radius, corners) ==
  LET r == Min(radius, Min(width, height) \div 2)
      p == Scaled(r, 64, 100)
      c == Scaled(r, 5523, 10000)
      tl == CornerRadius(corners.tl, r)
      tr == CornerRadius(corners.tr, r)
      bl == CornerRadius(corners.bl, r)
      br == CornerRadius(corners.br, r)
      tlP == CornerRadius(corners.tl, p)
      trP == CornerRadius(corners.tr, p)
      blP == CornerRadius(corners.bl, p)
      brP == CornerRadius(corners.br, p)
  IN << moveTo(x + tl + tlP, y),
        lineTo(x + width - tr - trP, y),
        IF tr > 0
        THEN bezierCurveTo(x + width - tr + c, y, x + width, y + tr - c,
                           x + width, y + tr + trP)
        ELSE lineTo(x + width, y),
        lineTo(x + width, y + height - br - brP),
        IF br > 0
        THEN bezierCurveTo(x + width, y + height - br + c,
                           x + width - br + c, y + height,
                           x + width - br - brP, y + height)
        ELSE lineTo(x + width, y + height),
        lineTo(x + bl + blP, y + height),
        IF bl > 0
        THEN bezierCurveTo(x + bl - c, y + height, x, y + height - bl + c,
                           x, y + height - bl - blP)
        ELSE lineTo(x, y + height),
        lineTo(x, y + tl + tlP),
        IF tl > 0
        THEN bezierCurveTo(x, y + tl - c, x + tl - c, y, x + tl + tlP, y)
        ELSE lineTo(x, y),
        closePath >>

\* drawSquircleMask(x, y, width, height, radius, corners)
drawSquircleMask(x, y, width, height, radius, corners) ==
  Append(SquirclePath(x, y, width, height, radius, corners), fill)

\* drawRoundedMask(x, y, width, height, radius, corners)
drawRoundedMask(x, y, width, height, radius, corners) ==
  LET tl == IF corners.tl THEN radius ELSE 0
      tr == IF corners.tr THEN radius ELSE 0
      bl == IF corners.bl THEN radius ELSE 0
      br == IF corners.br THEN radius ELSE 0
  IN << moveTo(x + tl, y),
        lineTo(x + width - tr, y),
        IF tr > 0 THEN arcTo(x + width, y, x + width, y + tr, tr)
        ELSE lineTo(x + width, y),
        lineTo(x + width, y + height - br),
        IF br > 0
        THEN arcTo(x + width, y + height, x + width - br, y + height, br)
        ELSE lineTo(x + width, y + height),
        lineTo(x + bl, y + height),
        IF bl > 0 THEN arcTo(x, y + height, x, y + height - bl, bl)
        ELSE lineTo(x, y + height),
        lineTo(x, y + tl),
        IF tl > 0 THEN arcTo(x, y, x + tl, y, tl)
        ELSE lineTo(x, y),
        closePath, fill >>

\* updateLayout(): maskGraphics.clear() and the mask of the current settings
updateLayoutMask ==
  /\ maskPath = <<>>
  /\ maskPath' =
       IF cornerSettings.radius > 0
       THEN IF cornerSettings.squircle
            THEN drawSquircleMask(0, 0, maskRect.width, maskRect.height,
                                  cornerSettings.radius, cornerSettings)
            ELSE drawRoundedMask(0, 0, maskRect.width, maskRect.height,
                                 cornerSettings.radius, cornerSettings)
       ELSE << PathCommand("rect", <<<<0, 0>>, <<maskRect.width,
                                                maskRect.height>>>>, 0),
               fill >>
  /\ UNCHANGED <<exporterVars, hostVars, decoderVars, animVars, paceVars,
                 springVars, cursorVars, cornerSettings, maskRect,
                 seekVars, keyVars, layoutVars, trackerVars, timelineVars,
                 frameVars, playbackVars, pathVars>>

MaskInit ==
  /\ ExporterInit
  /\ durationMs = LongMs
  /\ badFrames = {}
  /\ EditorInit
  /\ DecoderAtRest
  /\ AnimAtRest
  /\ PaceAtRest
  /\ SpringAtRest
  /\ CursorAtRest
  /\ cornerSettings \in [radius : MaskRadii, squircle : BOOLEAN,
                         tl : BOOLEAN, tr : BOOLEAN, bl : BOOLEAN,
                         br : BOOLEAN]
  /\ maskRect \in MaskRects
  /\ maskPath = <<>>
  /\ SeekAtRest
  /\ KeyAtRest
  /\ LayoutAtRest
  /\ TrackerAtRest
  /\ TimelineAtRest
  /\ FramesAtRest
  /\ PlaybackAtRest
  /\ PathAtRest

MaskNext == updateLayoutMask

MaskSpec == MaskInit /\ [][MaskNext]_vars

\* ------------------------------------------------------------- seekToTime
\* The helper seekToTime of export(), 'await seekToTime(0)' and the seek at
\* the head of the extraction loop, in microseconds, so that the tolerance
\* of 0.001 s and the clamp to duration - 0.001 are more than an equality.

\* durations of the source
SeekDurationsUs == {500400, 1000000, 1000400}
\* positions the element is found at when export() starts to seek
ElementStartsUs == {0, 400, 1000, 250400}
\* the 0.001 of seekToTime and of videoTime
SeekEpsilonUs == 1000

\* timeStep = 1 / frameRate
TimeStepUs == 1000000 \div ExportFrameRate

\* Math.ceil(videoInfo.duration * frameRate)
SeekTotalFrames == CeilDiv(seekDurationUs * ExportFrameRate, 1000000)

\* Math.min(i * timeStep, videoInfo.duration - 0.001)
VideoTimeUs(i) == Min(i * TimeStepUs, seekDurationUs - SeekEpsilonUs)

\* Math.min(time, videoInfo.duration - 0.001)
ClampedTimeUs(time) == Min(time, seekDurationUs - SeekEpsilonUs)

\* a test that never finds the element at the right time
AlreadyAtNever(time) == FALSE

\* Math.abs(videoElement.currentTime - clampedTime) < 0.001
AlreadyAtUs(time) ==
  Abs(elementTimeUs - ClampedTimeUs(time)) < SeekEpsilonUs

\* seekToTime(time) up to the first suspension: it resolves at once, or
\* registers onSeeked and assigns currentTime
seekToTime(frameTime, time) ==
  /\ seekCall' = [called |-> TRUE, frameTime |-> frameTime,
                  requested |-> time, clamped |-> ClampedTimeUs(time),
                  before |-> elementTimeUs,
                  assigned |-> ~AlreadyAtUs(time),
                  listened |-> ~AlreadyAtUs(time), waited |-> FALSE]
  /\ IF AlreadyAtUs(time)
     THEN /\ seekPc' = "loop"
          /\ UNCHANGED <<elementTimeUs, seekListeners>>
     ELSE /\ seekPc' = "seeking"
          /\ seekListeners' = seekListeners + 1
          /\ elementTimeUs' = ClampedTimeUs(time)

\* await seekToTime(0)
SeekToStart ==
  /\ seekPc = "start"
  /\ seekToTime(0, 0)
  /\ UNCHANGED <<exporterVars, hostVars, decoderVars, animVars, paceVars,
                 springVars, cursorVars, maskVars, seekDurationUs, seekIndex,
                 keyVars, layoutVars, trackerVars, timelineVars, frameVars,
                 playbackVars, pathVars>>

\* the head of the loop: videoTime and await seekToTime(videoTime); the
\* frame index of the call is kept, frameIndex++ is taken with it
LoopSeek ==
  /\ seekPc = "loop"
  /\ seekIndex < SeekTotalFrames
  /\ seekToTime(seekIndex * TimeStepUs, VideoTimeUs(seekIndex))
  /\ seekIndex' = seekIndex + 1
  /\ UNCHANGED <<exporterVars, hostVars, decoderVars, animVars, paceVars,
                 springVars, cursorVars, maskVars, seekDurationUs, keyVars,
                 layoutVars, trackerVars, timelineVars, frameVars,
                 playbackVars, pathVars>>

\* while (frameIndex < totalFrames) fails
LoopExit ==
  /\ seekPc = "loop"
  /\ seekIndex >= SeekTotalFrames
  /\ seekPc' = "done"
  /\ UNCHANGED <<exporterVars, hostVars, decoderVars, animVars, paceVars,
                 springVars, cursorVars, maskVars, seekDurationUs,
                 elementTimeUs, seekListeners, seekIndex, seekCall,
                 keyVars, layoutVars, trackerVars, timelineVars, frameVars,
                 playbackVars, pathVars>>

\* onSeeked: removeEventListener, setTimeout(resolve, 5)
onSeeked ==
  /\ seekPc = "seeking"
  /\ seekPc' = "settling"
  /\ seekListeners' = seekListeners - 1
  /\ seekCall' = [seekCall EXCEPT !.waited = TRUE]
  /\ UNCHANGED <<exporterVars, hostVars, decoderVars, animVars, paceVars,
                 springVars, cursorVars, maskVars, seekDurationUs,
                 elementTimeUs, seekIndex, keyVars, layoutVars,
                 trackerVars, timelineVars, frameVars, playbackVars,
                 pathVars>>

\* the 5 ms timer resolves the promise of seekToTime
SeekTimerFires ==
  /\ seekPc = "settling"
  /\ seekPc' = "loop"
  /\ UNCHANGED <<exporterVars, hostVars, decoderVars, animVars, paceVars,
                 springVars, cursorVars, maskVars, seekDurationUs,
                 elementTimeUs, seekListeners, seekIndex, seekCall,
                 keyVars, layoutVars, trackerVars, timelineVars, frameVars,
                 playbackVars, pathVars>>

SeekInit ==
  /\ ExporterInit
  /\ durationMs = LongMs
  /\ badFrames = {}
  /\ EditorInit
  /\ DecoderAtRest
  /\ AnimAtRest
  /\ PaceAtRest
  /\ SpringAtRest
  /\ CursorAtRest
  /\ MaskAtRest
  /\ SeekStart
  /\ seekDurationUs \in SeekDurationsUs
  /\ elementTimeUs \in ElementStartsUs
  /\ KeyAtRest
  /\ LayoutAtRest
  /\ TrackerAtRest
  /\ TimelineAtRest
  /\ FramesAtRest
  /\ PlaybackAtRest
  /\ PathAtRest

SeekNext ==
  SeekToStart \/ LoopSeek \/ LoopExit \/ onSeeked \/ SeekTimerFires

SeekSpec == SeekInit /\ [][SeekNext]_vars

\* ------------------------------------------------------ keyframe requests
\* encoder.encode(exportFrame, { keyFrame: i % this.config.frameRate === 0 })
\* with the frame rate export() resolved.  tryLoadMetadata returns
\* metadata.fps as it is, whole or not; rates are kept in 1/100 fps.

\* metadata.fps values of sidecar files
MetaFpsCenti == {50, 150, 200, 250, 400, 2997}
\* frame rates of the export settings, 0 for none
ConfigFpsCenti == {0, 200, 300}
\* frames of the export that are followed
MaxKeyFrames == 12

\* the rate the loop runs at: config.frameRate > 0 ? config.frameRate :
\* videoInfo.frameRate
KeyRateCenti == IF cfgFpsCenti > 0 THEN cfgFpsCenti ELSE metaFpsCenti

\* i % this.config.frameRate === 0
IsKeyFrame(i, rateCenti) == (i * 100) % rateCenti = 0

\* the encode call of frame keyIndex and frameIndex++
EncodeKeyFrame ==
  /\ keyIndex < MaxKeyFrames
  /\ keyFlags' = Append(keyFlags, IsKeyFrame(keyIndex, KeyRateCenti))
  /\ keyIndex' = keyIndex + 1
  /\ UNCHANGED <<exporterVars, hostVars, decoderVars, animVars, paceVars,
                 springVars, cursorVars, maskVars, seekVars, metaFpsCenti,
                 cfgFpsCenti, layoutVars, trackerVars, timelineVars,
                 frameVars, playbackVars, pathVars>>

KeyInit ==
  /\ ExporterInit
  /\ durationMs = LongMs
  /\ badFrames = {}
  /\ EditorInit
  /\ DecoderAtRest
  /\ AnimAtRest
  /\ PaceAtRest
  /\ SpringAtRest
  /\ CursorAtRest
  /\ MaskAtRest
  /\ SeekAtRest
  /\ KeyStart
  /\ metaFpsCenti \in MetaFpsCenti
  /\ cfgFpsCenti \in ConfigFpsCenti
  /\ LayoutAtRest
  /\ TrackerAtRest
  /\ TimelineAtRest
  /\ FramesAtRest
  /\ PlaybackAtRest
  /\ PathAtRest

KeyNext == EncodeKeyFrame

KeySpec == KeyInit /\ [][KeyNext]_vars

\* ------------------------------------------------------------- the layout
\* FrameRenderer.updateLayout places the cropped video on the canvas and
\* caches the layout; drawCursor maps the recorded cursor with it.
\* config.padding is set (VIEWPORT_SCALE is not needed).

\* sizes of the export canvas
CanvasSizes == {[width |-> 1920, height |-> 1080],
                [width |-> 1280, height |-> 720]}
\* crop regions: none, the centre quarter, the left half
CropRegions ==
  {FullCrop, [x |-> 250, y |-> 250, width |-> 500, height |-> 500],
   [x |-> 0, y |-> 0, width |-> 500, height |-> 1000]}
\* padding settings, percent
Paddings == {0, 20}

\* what updateLayout stores in layoutCache
LayoutOf(canvas, crop, pad) ==
  LET croppedVideoWidth == Scaled(VideoSize.width, crop.width, 1000)
      croppedVideoHeight == Scaled(VideoSize.height, crop.height, 1000)
      viewportWidth == Scaled(canvas.width, 100 - pad, 100)
      viewportHeight == Scaled(canvas.height, 100 - pad, 100)
      scale == Min(Scaled(viewportWidth, 1000, croppedVideoWidth),
                   Scaled(viewportHeight, 1000, croppedVideoHeight))
      croppedDisplayWidth == Scaled(croppedVideoWidth, scale, 1000)
      croppedDisplayHeight == Scaled(croppedVideoHeight, scale, 1000)
  IN [stageSize |-> canvas,
      videoSize |-> [width |-> croppedVideoWidth,
                     height |-> croppedVideoHeight],
      baseScale |-> scale,
      baseOffset |-> [x |-> (canvas.width - croppedDisplayWidth) \div 2,
                      y |-> (canvas.height - croppedDisplayHeight) \div 2]]

\* updateLayout() of the first frame; on later frames it stores the same
updateLayout ==
  /\ layoutCache = NoLayout
  /\ layoutCache' = LayoutOf(canvasSize, cropRegion, padding)
  /\ UNCHANGED <<exporterVars, hostVars, decoderVars, animVars, paceVars,
                 springVars, cursorVars, maskVars, seekVars, keyVars,
                 canvasSize, cropRegion, padding, cursorTarget,
                 trackerVars, timelineVars, frameVars, playbackVars,
                 pathVars>>

LayoutInit ==
  /\ ExporterInit
  /\ durationMs = LongMs
  /\ badFrames = {}
  /\ EditorInit
  /\ DecoderAtRest
  /\ AnimAtRest
  /\ PaceAtRest
  /\ SpringAtRest
  /\ CursorStart
  /\ cursorData = MovingClicks
  /\ autoHide = FALSE
  /\ MaskAtRest
  /\ SeekAtRest
  /\ KeyAtRest
  /\ canvasSize \in CanvasSizes
  /\ cropRegion \in CropRegions
  /\ padding \in Paddings
  /\ layoutCache = NoLayout
  /\ cursorTarget = [x |-> 0, y |-> 0]
  /\ TrackerAtRest
  /\ TimelineAtRest
  /\ FramesAtRest
  /\ PlaybackAtRest
  /\ PathAtRest

LayoutNext == updateLayout \/ drawCursor

LayoutSpec == LayoutInit /\ [][LayoutNext]_vars

\* ------------------------------------------------------------ CursorTracker
\* start(), the polling callback of setInterval, the continuation after
\* 'await getCursorPosition()', updatePressed() and stop().  The replies may
\* settle in any order and at any later time.  The x and y of a sample are
\* the reply's and are left out.

\* sampleInterval
SampleIntervalMs == 4
\* how far the clock is followed
MaxNowMs == 12
\* getCursorPosition calls that are followed
MaxPolls == 3

\* a timestamp taken when the request was sent
ElapsedAtRequest(request) == request.at - trackerStart

\* elapsed = performance.now() - this.startTime, after the await
Elapsed(request) == trackerNow - trackerStart

\* start(screenWidth, screenHeight): a recording begins
TrackerStart ==
  /\ ~tracking
  /\ recording < MaxStarts
  /\ recording' = recording + 1
  /\ trackerStart' = trackerNow
  /\ tracking' = TRUE
  /\ wasPressed' = FALSE
  /\ pollTimer' = TRUE
  /\ nextPollAt' = trackerNow + SampleIntervalMs
  /\ UNCHANGED <<exporterVars, hostVars, decoderVars, animVars, paceVars,
                 springVars, cursorVars, maskVars, seekVars, keyVars,
                 layoutVars, trackerNow, pendingReplies, nextRequest,
                 positionArrays, returnedArrays, mousePressed,
                 timelineVars, frameVars, playbackVars, pathVars>>

\* the interval callback up to its await: getCursorPosition() is called
PollTick ==
  /\ pollTimer
  /\ trackerNow >= nextPollAt
  /\ nextRequest <= MaxPolls
  /\ nextPollAt' = nextPollAt + SampleIntervalMs
  /\ IF tracking
     THEN /\ pendingReplies' = pendingReplies \cup
               {[req |-> nextRequest, recording |-> recording,
                 at |-> trackerNow]}
          /\ nextRequest' = nextRequest + 1
     ELSE UNCHANGED <<pendingReplies, nextRequest>>
  /\ UNCHANGED <<exporterVars, hostVars, decoderVars, animVars, paceVars,
                 springVars, cursorVars, maskVars, seekVars, keyVars,
                 layoutVars, trackerNow, trackerStart, tracking, pollTimer,
                 recording, positionArrays, returnedArrays, mousePressed,
                 wasPressed, timelineVars, frameVars, playbackVars,
                 pathVars>>

\* a getCursorPosition() call resolves: the rest of the callback runs
PositionReply ==
  \E request \in pendingReplies :
    /\ pendingReplies' = pendingReplies \ {request}
    /\ wasPressed' = mousePressed
    /\ positionArrays' =
         [positionArrays EXCEPT ![recording] =
            Append(@, [timestamp |-> Elapsed(request),
                       pressed |-> mousePressed,
                       clickStart |-> mousePressed /\ ~wasPressed,
                       clickEnd |-> ~mousePressed /\ wasPressed,
                       req |-> request.req,
                       recording |-> request.recording])]
    /\ UNCHANGED <<exporterVars, hostVars, decoderVars, animVars, paceVars,
                   springVars, cursorVars, maskVars, seekVars, keyVars,
                   layoutVars, trackerNow, trackerStart, tracking,
                   pollTimer, nextPollAt, nextRequest, recording,
                   returnedArrays, mousePressed, timelineVars, frameVars,
                   playbackVars, pathVars>>

\* a getCursorPosition() call rejects: the catch ignores it
PositionReplyFails ==
  \E request \in pendingReplies :
    /\ pendingReplies' = pendingReplies \ {request}
    /\ UNCHANGED <<exporterVars, hostVars, decoderVars, animVars, paceVars,
                   springVars, cursorVars, maskVars, seekVars, keyVars,
                   layoutVars, trackerNow, trackerStart, tracking,
                   pollTimer, nextPollAt, nextRequest, recording,
                   positionArrays, returnedArrays, mousePressed,
                   wasPressed, timelineVars, frameVars, playbackVars,
                   pathVars>>

\* updatePressed(pressed), from the mouse down and up events
updatePressed ==
  /\ tracking
  /\ mousePressed' = ~mousePressed
  /\ UNCHANGED <<exporterVars, hostVars, decoderVars, animVars, paceVars,
                 springVars, cursorVars, maskVars, seekVars, keyVars,
                 layoutVars, trackerNow, trackerStart, tracking, pollTimer,
                 nextPollAt, pendingReplies, nextRequest, recording,
                 positionArrays, returnedArrays, wasPressed, timelineVars,
                 frameVars, playbackVars, pathVars>>

\* stop(): the timer is cleared and this.positions is returned
TrackerStop ==
  /\ tracking
  /\ tracking' = FALSE
  /\ pollTimer' = FALSE
  /\ returnedArrays' = returnedArrays \cup {recording}
  /\ UNCHANGED <<exporterVars, hostVars, decoderVars, animVars, paceVars,
                 springVars, cursorVars, maskVars, seekVars, keyVars,
                 layoutVars, trackerNow, trackerStart, nextPollAt,
                 pendingReplies, nextRequest, recording, positionArrays,
                 mousePressed, wasPressed, timelineVars, frameVars,
                 playbackVars, pathVars>>

\* time passes
TimePasses ==
  /\ trackerNow < MaxNowMs
  /\ trackerNow' = trackerNow + 2
  /\ UNCHANGED <<exporterVars, hostVars, decoderVars, animVars, paceVars,
                 springVars, cursorVars, maskVars, seekVars, keyVars,
                 layoutVars, trackerStart, tracking, pollTimer, nextPollAt,
                 pendingReplies, nextRequest, recording, positionArrays,
                 returnedArrays, mousePressed, wasPressed, timelineVars,
                 frameVars, playbackVars, pathVars>>

TrackerInit ==
  /\ ExporterInit
  /\ durationMs = LongMs
  /\ badFrames = {}
  /\ cfgFrameRate = 0
  /\ EditorInit
  /\ DecoderAtRest
  /\ AnimAtRest
  /\ PaceAtRest
  /\ SpringAtRest
  /\ CursorAtRest
  /\ MaskAtRest
  /\ SeekAtRest
  /\ KeyAtRest
  /\ LayoutAtRest
  /\ TrackerAtRest
  /\ TimelineAtRest
  /\ FramesAtRest
  /\ PlaybackAtRest
  /\ PathAtRest

TrackerNext ==
  \/ TrackerStart \/ PollTick \/ PositionReply \/ PositionReplyFails
  \/ updatePressed \/ TrackerStop \/ TimePasses

TrackerSpec == TrackerInit /\ [][TrackerNext]_vars

\* ------------------------------------------------------------ the timeline
\* onResizeEnd and onDragEnd of TimelineWrapper with clampSpanToBounds, and
\* handleZoomSpanChange of the editor, which they call through
\* onItemSpanChange.  hasOverlap is passed in by the timeline editor.

\* minItemDurationMs, 2 ms
MinItemDuration == 20
\* totalMs of the timelines explored: unknown, 5 ms
TimelineTotals == {0, 50}
\* the times a drag or resize can report: whole ms and fractions .4 .5
MaxRawTime == 50
RawTimes == {t \in (0 - 10)..MaxRawTime : t % 10 \in {0, 4, 5}}

\* the record of a span change committed
SpanChange(kind, span) ==
  [kind |-> kind,
   rounded |-> span.start % 10 # 0 \/ span.end % 10 # 0]

\* Math.round of a time in 1/10 ms
RoundMs(t) == ((t + 5) \div 10) * 10

\* a span passed on as the drag reported it
clampSpanUnbounded(span) == span

\* clampSpanToBounds(span)
clampSpanToBounds(span) ==
  LET rawDuration == Max(span.end - span.start, 0)
  IN IF timelineTotal = 0
     THEN LET duration == Max(rawDuration, Max(MinItemDuration, 10))
              start == Max(0, span.start)
          IN [start |-> start, end |-> start + duration]
     ELSE LET minDuration == Min(Max(MinItemDuration, 10), timelineTotal)
              duration == Min(Max(rawDuration, minDuration), timelineTotal)
              start == Max(0, Min(span.start, timelineTotal - duration))
          IN [start |-> start, end |-> start + duration]

\* hasOverlap(newSpan, excludeId): the span shares more than an end point
\* with a region other than excludeId
hasOverlap(newSpan, excludeId) ==
  \E id \in RegionIds \ {excludeId} :
    ~(\/ newSpan.end <= timelineRegions[id].startMs
      \/ newSpan.start >= timelineRegions[id].endMs)

\* handleZoomSpanChange(id, span)
handleZoomSpanChange(id, span) ==
  timelineRegions' =
    [timelineRegions EXCEPT ![id] = [startMs |-> RoundMs(span.start),
                                     endMs |-> RoundMs(span.end)]]

\* the minimum onResizeEnd compares the clamped span with
ResizeMinimum ==
  Min(MinItemDuration,
      IF timelineTotal # 0 THEN timelineTotal ELSE MinItemDuration)

\* onResizeEnd(event) with the span the resize reports
onResizeEnd ==
  \E id \in RegionIds, s \in RawTimes, e \in RawTimes :
    LET raw == [start |-> s, end |-> e]
        clampedSpan == clampSpanToBounds(raw)
    IN /\ clampedSpan.end - clampedSpan.start >= ResizeMinimum
       /\ ~hasOverlap(clampedSpan, id)
       /\ handleZoomSpanChange(id, clampedSpan)
       /\ lastSpanChange' = SpanChange("resize", clampedSpan)
       /\ UNCHANGED <<exporterVars, hostVars, decoderVars, animVars,
                      paceVars, springVars, cursorVars, maskVars, seekVars,
                      keyVars, layoutVars, trackerVars, timelineTotal,
                      frameVars, playbackVars, pathVars>>

\* onDragEnd(event) with the span the drag reports, dropped on a row
onDragEnd ==
  \E id \in RegionIds, s \in RawTimes, e \in RawTimes :
    LET raw == [start |-> s, end |-> e]
        clampedSpan == clampSpanToBounds(raw)
    IN /\ ~hasOverlap(clampedSpan, id)
       /\ handleZoomSpanChange(id, clampedSpan)
       /\ lastSpanChange' = SpanChange("drag", clampedSpan)
       /\ UNCHANGED <<exporterVars, hostVars, decoderVars, animVars,
                      paceVars, springVars, cursorVars, maskVars, seekVars,
                      keyVars, layoutVars, trackerVars, timelineTotal,
                      frameVars, playbackVars, pathVars>>

TimelineInit ==
  /\ ExporterInit
  /\ durationMs = LongMs
  /\ badFrames = {}
  /\ cfgFrameRate = 0
  /\ EditorInit
  /\ DecoderAtRest
  /\ AnimAtRest
  /\ PaceAtRest
  /\ SpringAtRest
  /\ CursorAtRest
  /\ MaskAtRest
  /\ SeekAtRest
  /\ KeyAtRest
  /\ LayoutAtRest
  /\ TrackerAtRest
  /\ TimelineStart
  /\ timelineTotal \in TimelineTotals
  /\ FramesAtRest
  /\ PlaybackAtRest
  /\ PathAtRest

TimelineNext == onResizeEnd \/ onDragEnd

TimelineSpec == TimelineInit /\ [][TimelineNext]_vars

\* ------------------------------------------------- the preview's playback
\* createVideoEventHandlers, the play and pause methods of the imperative
\* handle of VideoPlayback, and the video element they act on.

\* animation frames requested per behaviour
MaxRafs == 3

\* what the playback model leaves alone
OutsidePlaybackUnchanged ==
  UNCHANGED <<exporterVars, hostVars, decoderVars, animVars, paceVars,
              springVars, cursorVars, maskVars, seekVars, keyVars,
              layoutVars, trackerVars, timelineVars, frameVars, pathVars>>

\* handlePlay: the 'play' event
handlePlay ==
  /\ IF isSeekingRef \/ ~allowPlaybackRef
     THEN /\ elementPaused' = TRUE
          /\ lastCall' = Called("play", "none")
          /\ UNCHANGED <<isPlayingRef, isPlaying, timeUpdateAnimationRef,
                         rafPending, nextRafId>>
     ELSE /\ nextRafId <= MaxRafs
          /\ isPlayingRef' = TRUE
          /\ isPlaying' = TRUE
          /\ rafPending' =
               (rafPending \ {timeUpdateAnimationRef}) \cup {nextRafId}
          /\ timeUpdateAnimationRef' = nextRafId
          /\ nextRafId' = nextRafId + 1
          /\ lastCall' = Called("play", "true")
          /\ UNCHANGED elementPaused
  /\ UNCHANGED <<elementEnded, isSeekingRef, allowPlaybackRef>>
  /\ OutsidePlaybackUnchanged

\* handlePause, the listener of the events 'pause' and 'ended'
handlePause ==
  /\ \E event \in {"pause", "ended"} :
       lastCall' = Called(event, "false")
  /\ isPlayingRef' = FALSE
  /\ isPlaying' = FALSE
  /\ rafPending' = rafPending \ {timeUpdateAnimationRef}
  /\ timeUpdateAnimationRef' = 0
  /\ UNCHANGED <<elementPaused, elementEnded, isSeekingRef,
                 allowPlaybackRef, nextRafId>>
  /\ OutsidePlaybackUnchanged

\* if (!isPlayingRef.current && !video.paused) video.pause()
PausedAfterSeekEvent == elementPaused \/ ~isPlayingRef

\* handleSeeking: the 'seeking' event
handleSeeking ==
  /\ isSeekingRef' = TRUE
  /\ elementPaused' = PausedAfterSeekEvent
  /\ lastCall' = Called("seeking", "none")
  /\ UNCHANGED <<elementEnded, isPlayingRef, allowPlaybackRef, isPlaying,
                 timeUpdateAnimationRef, rafPending, nextRafId>>
  /\ OutsidePlaybackUnchanged

\* handleSeeked: the 'seeked' event
handleSeeked ==
  /\ isSeekingRef' = FALSE
  /\ elementPaused' = PausedAfterSeekEvent
  /\ lastCall' = Called("seeked", "none")
  /\ UNCHANGED <<elementEnded, isPlayingRef, allowPlaybackRef, isPlaying,
                 timeUpdateAnimationRef, rafPending, nextRafId>>
  /\ OutsidePlaybackUnchanged

\* updateTime that requests the next frame without keeping its handle
HandleDropped(id) == timeUpdateAnimationRef

\* timeUpdateAnimationRef.current = requestAnimationFrame(updateTime)
HandleKept(id) == id

\* updateTime, run by the animation frame with handle id
updateTime ==
  \E id \in rafPending :
    LET again == ~elementPaused /\ ~elementEnded
    IN /\ again => nextRafId <= MaxRafs
       /\ rafPending' =
            (rafPending \ {id}) \cup (IF again THEN {nextRafId} ELSE {})
       /\ timeUpdateAnimationRef' =
            IF again THEN HandleKept(nextRafId) ELSE timeUpdateAnimationRef
       /\ nextRafId' = IF again THEN nextRafId + 1 ELSE nextRafId
       /\ lastCall' = Called("frame", "none")
       /\ UNCHANGED <<elementPaused, elementEnded, isSeekingRef,
                      isPlayingRef, allowPlaybackRef, isPlaying>>
       /\ OutsidePlaybackUnchanged

\* play() of the imperative handle up to video.play()
play ==
  /\ allowPlaybackRef' = TRUE
  /\ elementPaused' = FALSE
  /\ elementEnded' = FALSE
  /\ lastCall' = Called("play()", "none")
  /\ UNCHANGED <<isSeekingRef, isPlayingRef, isPlaying,
                 timeUpdateAnimationRef, rafPending, nextRafId>>
  /\ OutsidePlaybackUnchanged

\* play(): the promise of video.play() rejects
PlayRejects ==
  /\ lastCall.handler = "play()"
  /\ allowPlaybackRef' = FALSE
  /\ elementPaused' = TRUE
  /\ lastCall' = Called("rejected", "none")
  /\ UNCHANGED <<elementEnded, isSeekingRef, isPlayingRef, isPlaying,
                 timeUpdateAnimationRef, rafPending, nextRafId>>
  /\ OutsidePlaybackUnchanged

\* pause() of the imperative handle
pause ==
  /\ allowPlaybackRef' = FALSE
  /\ elementPaused' = TRUE
  /\ lastCall' = Called("pause()", "none")
  /\ UNCHANGED <<elementEnded, isSeekingRef, isPlayingRef, isPlaying,
                 timeUpdateAnimationRef, rafPending, nextRafId>>
  /\ OutsidePlaybackUnchanged

\* the element starts to play without play() of the handle
ElementPlays ==
  /\ elementPaused
  /\ elementPaused' = FALSE
  /\ elementEnded' = FALSE
  /\ lastCall' = Called("element", "none")
  /\ UNCHANGED <<isSeekingRef, isPlayingRef, allowPlaybackRef, isPlaying,
                 timeUpdateAnimationRef, rafPending, nextRafId>>
  /\ OutsidePlaybackUnchanged

\* playback reaches the end of the video
ElementEnds ==
  /\ ~elementPaused
  /\ ~elementEnded
  /\ elementEnded' = TRUE
  /\ lastCall' = Called("element", "none")
  /\ UNCHANGED <<elementPaused, isSeekingRef, isPlayingRef,
                 allowPlaybackRef, isPlaying, timeUpdateAnimationRef,
                 rafPending, nextRafId>>
  /\ OutsidePlaybackUnchanged

\* useEffect(() => { isPlayingRef.current = isPlaying }, [isPlaying])
SyncIsPlaying ==
  /\ lastCall.notified # "none"
  /\ isPlayingRef' = isPlaying
  /\ lastCall' = Called("effect", "none")
  /\ UNCHANGED <<elementPaused, elementEnded, isSeekingRef,
                 allowPlaybackRef, isPlaying, timeUpdateAnimationRef,
                 rafPending, nextRafId>>
  /\ OutsidePlaybackUnchanged

PlaybackInit ==
  /\ ExporterInit
  /\ durationMs = LongMs
  /\ badFrames = {}
  /\ cfgFrameRate = 0
  /\ EditorInit
  /\ DecoderAtRest
  /\ AnimAtRest
  /\ PaceAtRest
  /\ SpringAtRest
  /\ CursorAtRest
  /\ MaskAtRest
  /\ SeekAtRest
  /\ KeyAtRest
  /\ LayoutAtRest
  /\ TrackerAtRest
  /\ TimelineAtRest
  /\ FramesAtRest
  /\ PlaybackAtRest
  /\ PathAtRest

PlaybackNext ==
  \/ handlePlay \/ handlePause \/ handleSeeking \/ handleSeeked
  \/ updateTime \/ play \/ PlayRejects \/ pause
  \/ ElementPlays \/ ElementEnds \/ SyncIsPlaying

PlaybackSpec == PlaybackInit /\ [][PlaybackNext]_vars

\* --------------------------------------------------- the current video path
\* The handlers store-recorded-video, set-current-video-path,
\* get-current-video-path and clear-current-video-path of the main process,
\* with recorder.onstop and openVideoFile of the launch window, which call
\* them.

\* recordings made per behaviour
MaxRecordings == 2

\* extensions of the 'Video Files' filter of the file picker
PickerExtensions == {"webm", "mp4", "mov", "avi", "mkv"}

\* the files the picker can return: one per extension outside the
\* recordings folder, and the recordings
PickablePaths ==
  {File("elsewhere", 0, ext) : ext \in PickerExtensions}
    \cup {f \in recordingsDir : f.ext = "webm"}

\* the rest of the state
OutsidePathUnchanged ==
  UNCHANGED <<exporterVars, hostVars, decoderVars, animVars, paceVars,
              springVars, cursorVars, maskVars, seekVars, keyVars,
              layoutVars, trackerVars, timelineVars, frameVars,
              playbackVars>>

\* store-recorded-video(data, fileName): writeFile succeeds or throws
storeRecordedVideo(file, ok) ==
  IF ok
  THEN /\ recordingsDir' = recordingsDir \cup {file}
       /\ currentVideoPath' = file
       /\ pathSet' = NoPath
  ELSE UNCHANGED <<recordingsDir, currentVideoPath, pathSet>>

\* recorder.onstop: the video is stored as recording-<timestamp>.webm
StoreVideo ==
  \E ok \in BOOLEAN :
    /\ storePc = "idle"
    /\ storeStamp < MaxRecordings
    /\ storeStamp' = storeStamp + 1
    /\ storeRecordedVideo(File("recordings", storeStamp + 1, "webm"), ok)
    /\ storePc' = IF ok THEN "video" ELSE "idle"
    /\ filesStored' = 0
    /\ UNCHANGED lastGet
    /\ OutsidePathUnchanged

\* recorder.onstop: the cursor data, when there is any, is stored as
\* recording-<timestamp>.cursor.json
StoreCursor ==
  \E hasCursorData \in BOOLEAN, ok \in BOOLEAN :
    /\ storePc = "video"
    /\ IF hasCursorData
       THEN storeRecordedVideo(File("recordings", storeStamp, "cursor.json"),
                               ok)
       ELSE UNCHANGED <<recordingsDir, currentVideoPath, pathSet>>
    /\ storePc' = "cursor"
    /\ UNCHANGED <<storeStamp, filesStored, lastGet>>
    /\ OutsidePathUnchanged

\* recorder.onstop: the metadata is stored as recording-<timestamp>.meta.json
StoreMeta ==
  \E ok \in BOOLEAN :
    /\ storePc = "cursor"
    /\ storeRecordedVideo(File("recordings", storeStamp, "meta.json"), ok)
    /\ storePc' = "idle"
    /\ filesStored' = IF ok THEN storeStamp ELSE filesStored
    /\ UNCHANGED <<storeStamp, lastGet>>
    /\ OutsidePathUnchanged

\* openVideoFile: set-current-video-path(path) with the file picked
setCurrentVideoPath ==
  \E path \in PickablePaths :
    /\ currentVideoPath' = path
    /\ pathSet' = path
    /\ filesStored' = 0
    /\ UNCHANGED <<recordingsDir, storePc, storeStamp, lastGet>>
    /\ OutsidePathUnchanged

\* currentVideoPath && currentVideoPath.endsWith('.webm')
Kept(path) == path # NoPath /\ path.ext = "webm"

\* files.filter(file => file.endsWith('.webm') && !file.includes('.meta.'))
VideoFiles == {f \in recordingsDir : f.ext = "webm"}

\* videoFiles.sort().reverse()[0]
LatestVideo ==
  CHOOSE f \in VideoFiles : \A g \in VideoFiles : g.stamp <= f.stamp

\* get-current-video-path
getCurrentVideoPath ==
  /\ IF Kept(currentVideoPath)
     THEN /\ lastGet' = [success |-> TRUE, path |-> currentVideoPath,
                         set |-> pathSet, stored |-> filesStored]
          /\ UNCHANGED currentVideoPath
     ELSE IF VideoFiles = {}
     THEN /\ lastGet' = [success |-> FALSE, path |-> NoPath,
                         set |-> pathSet, stored |-> filesStored]
          /\ UNCHANGED currentVideoPath
     ELSE /\ lastGet' = [success |-> TRUE, path |-> LatestVideo,
                         set |-> pathSet, stored |-> filesStored]
          /\ currentVideoPath' = LatestVideo
  /\ UNCHANGED <<recordingsDir, storePc, storeStamp, pathSet, filesStored>>
  /\ OutsidePathUnchanged

\* clear-current-video-path
clearCurrentVideoPath ==
  /\ currentVideoPath' = NoPath
  /\ pathSet' = NoPath
  /\ filesStored' = 0
  /\ UNCHANGED <<recordingsDir, storePc, storeStamp, lastGet>>
  /\ OutsidePathUnchanged

PathInit ==
  /\ ExporterInit
  /\ durationMs = LongMs
  /\ badFrames = {}
  /\ cfgFrameRate = 0
  /\ EditorInit
  /\ DecoderAtRest
  /\ AnimAtRest
  /\ PaceAtRest
  /\ SpringAtRest
  /\ CursorAtRest
  /\ MaskAtRest
  /\ SeekAtRest
  /\ KeyAtRest
  /\ LayoutAtRest
  /\ TrackerAtRest
  /\ TimelineAtRest
  /\ FramesAtRest
  /\ PlaybackAtRest
  /\ PathAtRest

PathNext ==
  \/ StoreVideo \/ StoreCursor \/ StoreMeta \/ setCurrentVideoPath
  \/ getCurrentVideoPath \/ clearCurrentVideoPath

PathSpec == PathInit /\ [][PathNext]_vars

\* ---------------------------------------------------------------- claims
\* the awaits inside the loop and the finalization that the cancellation
\* contract names
CancelPoints == {"seekWait", "seekSettle", "readyWait", "bpWait",
                 "flushWait", "joinWait"}

\* C1: when cancel() was invoked while export() was suspended in a seek
\* wait, a readiness wait, a backpressure wait, the encoder flush or the mux
\* join, the value export() returns is {success: false} with the error
\* 'Export cancelled'
C1_CancelReturnsMarker ==
  (pc = "returned" /\ cancelAt \in CancelPoints)
    => (result = Failure(CANCELLED_MARKER))

\* C2: no object is released more often than it was created, at most one of
\* each kind is created in a run, and once export() has returned every
\* created decoder, renderer, encoder and muxer has been released exactly
\* once, no reference is held and the encoder is not left configured
C2_ReleasedExactlyOnce ==
  /\ \A r \in Resources : released[r] <= created[r] /\ created[r] <= 1
  /\ pc = "returned" =>
       /\ \A r \in Resources : released[r] = created[r] /\ ~field[r]
       /\ encState # "configured"

\* cancel() ran inside the loop, the finally block ran as well, and each of
\* the four objects had been created
C2_Witness ==
  /\ pc = "returned"
  /\ cancelAt = "bpWait"
  /\ \A r \in Resources : created[r] = 1 /\ released[r] = 1

\* C3: once cancel() has been invoked during a running export, export()
\* eventually returns
C3_CancelLeadsToReturn ==
  (cancelAt \in SuspendPcs) ~> (pc = "returned")

\* C4: while the cancellation flag is set no step submits a frame to the
\* encoder
C4_NoSubmitAfterFlag ==
  [][cancelled => submitted' = submitted]_vars

\* the encoder error callback set the flag while an iteration was in
\* progress, and that iteration went through its encode step (it reported
\* progress) without submitting its frame
C4_Witness ==
  /\ encoderErrored
  /\ cancelCalls = 0
  /\ pc = "loopHead"
  /\ progressCalls = Len(submitted) + 1

\* C5: the frames submitted and not yet emitted, and the counter
\* encodeQueue, never exceed MAX_ENCODE_QUEUE, and a step that submits a
\* frame starts with encodeQueue below MAX_ENCODE_QUEUE
C5_QueueBounded ==
  /\ [](encodeQueue <= MAX_ENCODE_QUEUE
        /\ Len(submitted) - emitted <= MAX_ENCODE_QUEUE)
  /\ [][submitted' # submitted => encodeQueue < MAX_ENCODE_QUEUE]_vars

\* the queue is full and the loop waits for space
C5_Witness ==
  /\ pc = "bpWait"
  /\ encodeQueue = MAX_ENCODE_QUEUE
  /\ Len(submitted) - emitted = MAX_ENCODE_QUEUE

\* C6: an export that returned success with no cancel(), no encoder error
\* and no skipped source frame submitted exactly ceil(duration * frameRate)
\* frames, the k-th of them with index k - 1, timestamp
\* (k - 1) * 1e6 / frameRate and duration 1e6 / frameRate
C6_ExactFrames ==
  (/\ pc = "returned"
   /\ result.success
   /\ cancelCalls = 0
   /\ ~encoderErrored
   /\ skips = 0)
    => /\ Len(submitted) * 1000 >= durationMs * cfgFrameRate
       /\ (Len(submitted) - 1) * 1000 < durationMs * cfgFrameRate
       /\ \A k \in 1..Len(submitted) :
            /\ submitted[k].index = k - 1
            /\ submitted[k].timestamp * cfgFrameRate = (k - 1) * 1000000
            /\ submitted[k].duration * cfgFrameRate = 1000000

\* a clean export of the longest source at the source's own frame rate, whose
\* duration is not a whole number of frames
C6_Witness ==
  /\ pc = "returned"
  /\ result.success
  /\ cancelCalls = 0
  /\ skips = 0
  /\ durationMs = LongMs
  /\ cfgFrameRate = srcFrameRate
  /\ Len(submitted) = CeilDiv(LongMs * srcFrameRate, 1000)

\* C7: the chunks passed to muxer.addVideoChunk are, in call order, the
\* chunks the encoder has emitted, in emission order
C7_MuxCallsInEmissionOrder ==
  /\ Len(muxCalls) = emitted
  /\ \A k \in 1..Len(muxCalls) : muxCalls[k] = submitted[k].index

\* several mux writes are in flight at once, none of them awaited by the loop
C7_Witness ==
  /\ pc = "seekWait"
  /\ Len(muxCalls) >= 3
  /\ muxPending >= 3

\* C8: once muxer.finalize() has been called the encoder flush has
\* completed, every emitted chunk has been passed to the muxer, every mux
\* promise has settled, and no chunk is passed to the muxer afterwards
C8_FinalizeAfterFlushAndJoin ==
  /\ [](finalizeCalled =>
          /\ flushDone
          /\ emitted = Len(submitted)
          /\ Len(muxCalls) = emitted
          /\ muxPending = 0)
  /\ [][finalizeCalled => muxCalls' = muxCalls]_vars

\* finalize() has been called in a run that muxed several chunks
C8_Witness ==
  /\ pc = "finalizeWait"
  /\ finalizeCalled
  /\ Len(muxCalls) >= 3

InitOrder == <<"decoder", "frameRate", "renderer", "encoder", "muxer">>

IsPrefix(a, b) == Len(a) <= Len(b) /\ \A k \in 1..Len(a) : a[k] = b[k]

\* positions of export() inside the extraction loop and after it
ExtractionPcs == {"loopHead", "seekWait", "seekSettle", "afterSeek",
                  "readyWait", "createFrame", "backpressure", "bpWait",
                  "afterLoop", "flushWait", "joinWait", "afterJoin",
                  "finalizeWait"}

\* C9: the stages complete in the order decoder load, frame-rate
\* resolution, renderer initialization, encoder configuration, muxer
\* initialization; a stage's object is constructed only after the stages
\* before it completed; and the loop runs only after all five completed
C9_InitOrder ==
  /\ IsPrefix(initLog, InitOrder)
  /\ created["renderer"] > 0 => Len(initLog) >= 2
  /\ created["encoder"] > 0 => Len(initLog) >= 3
  /\ created["muxer"] > 0 => Len(initLog) >= 4
  /\ (pc \in ExtractionPcs \/ frameIndex > 0 \/ submitted # <<>>)
       => initLog = InitOrder

\* the encoder stage failed: the muxer was never constructed and no frame
\* was extracted
C9_Witness ==
  /\ pc = "returned"
  /\ result = Failure("Video encoding not supported on this system")
  /\ cancelCalls = 0
  /\ initLog = <<"decoder", "frameRate", "renderer">>
  /\ created["muxer"] = 0
  /\ frameIndex = 0

\* C10: from one progress callback to the next, currentFrame and
\* percentage do not decrease, and no callback reports more than 100 percent
C10_ProgressMonotone ==
  [][progressCalls' > progressCalls =>
       /\ progress'.pctNum <= 100 * progress'.pctDen
       /\ progressCalls >= 1 =>
            /\ progress'.currentFrame >= progress.currentFrame
            /\ progress'.pctNum * progress.pctDen
                 >= progress.pctNum * progress'.pctDen]_vars

\* the last of several callbacks reported 100 percent
C10_Witness ==
  /\ progressCalls >= 3
  /\ progress.currentFrame = progress.totalFrames
  /\ progress.pctNum = 100 * progress.pctDen

\* C11: onProgress is called after every frame index the loop has processed,
\* skipped indices included, so that the last callback of an export that
\* returned success reports currentFrame = totalFrames and 100 percent
C11_ProgressAfterEveryFrame ==
  /\ pc = "loopHead" => progressCalls = frameIndex
  /\ (pc = "returned" /\ result.success) =>
       /\ progress.currentFrame = totalFrames
       /\ progress.pctNum = 100 * progress.pctDen

\* C12: an export in which the encoder error callback ran does not return
\* success, and export() returns the error 'Export cancelled' only when
\* cancel() was called while it ran
C12_MarkerOnlyOnCancel ==
  /\ (pc = "returned" /\ encoderErrored) => ~result.success
  /\ (pc = "returned" /\ result.error = CANCELLED_MARKER) =>
       cancelAt \in SuspendPcs

\* C13: the encoder is configured with hardware acceleration exactly when
\* the hardware probe answered supported, with software acceleration exactly
\* when the hardware probe answered unsupported and the software probe
\* supported (in both cases unless cancel() took the encoder away), and
\* when both probes answered unsupported export() has returned a failure with
\* no muxer constructed and no frame extracted
C13_EncoderAcceleration ==
  /\ hwAccel = "prefer-hardware" => probes = <<TRUE>>
  /\ hwAccel = "prefer-software" => probes = <<FALSE, TRUE>>
  /\ (probes = <<TRUE>> /\ cancelCalls = 0) => hwAccel = "prefer-hardware"
  /\ (probes = <<FALSE, TRUE>> /\ cancelCalls = 0)
       => hwAccel = "prefer-software"
  /\ encState = "configured" => hwAccel # "none"
  /\ probes = <<FALSE, FALSE>> =>
       /\ pc = "returned"
       /\ ~result.success /\ ~result.blob
       /\ hwAccel = "none"
       /\ created["muxer"] = 0
       /\ frameIndex = 0 /\ submitted = <<>> /\ currentTime = 0

\* the hardware configuration was refused, the encoder runs in software and
\* frames are being encoded
C13_Witness ==
  /\ probes = <<FALSE, TRUE>>
  /\ hwAccel = "prefer-software"
  /\ encState = "configured"
  /\ Len(submitted) >= 2

\* C14: no malformed source frame is rendered or submitted to the encoder,
\* and the step taken when the source frame at index i cannot be created
\* renders nothing, submits nothing, counts the skip and goes back to the
\* loop head with frameIndex = i + 1, leaving the export running
C14_BadFrameSkipped ==
  /\ [](/\ rendered \cap badFrames = {}
        /\ \A k \in 1..Len(submitted) : submitted[k].index \notin badFrames)
  /\ [][(pc = "createFrame" /\ frameIndex \in badFrames) =>
         /\ frameIndex' = frameIndex + 1
         /\ pc' = "loopHead"
         /\ skips' = skips + 1
         /\ rendered' = rendered
         /\ submitted' = submitted
         /\ result' = result]_vars

\* two source frames were skipped, the frames between and after them were
\* rendered, and the export returned success
C14_Witness ==
  /\ pc = "returned"
  /\ result.success
  /\ badFrames = {0, 2}
  /\ skips = 2
  /\ rendered = (0..(totalFrames - 1)) \ badFrames
  /\ Len(submitted) = totalFrames - 2

\* C15: once the decoder load, the encoder configuration, the renderer
\* initialization or a renderFrame call has failed, export() has returned
\* {success: false} with an error message and no blob; a blob is returned
\* only together with success: true, and only by the step in which
\* muxer.finalize(), called before, resolves
C15_BlobOnlyOnSuccess ==
  /\ [](/\ failures # {} =>
             /\ pc = "returned"
             /\ ~result.success /\ ~result.blob
             /\ result.error \notin {"", "pending"}
        /\ result.blob =>
             /\ pc = "returned"
             /\ result.success
             /\ finalizeCalled)
  /\ [][(result'.blob /\ ~result.blob) =>
         (pc = "finalizeWait" /\ finalizeCalled)]_vars

\* renderFrame threw in the middle of an export that had already encoded
\* frames
C15_Witness ==
  /\ pc = "returned"
  /\ failures = {"renderFrame"}
  /\ result = Failure("Render failed")
  /\ Len(submitted) >= 2
  /\ emitted >= 1

\* C16: the step in which the muxing of a chunk fails logs the failure
\* and changes neither the position of export(), nor the loop counter, nor
\* the cancellation flag, nor the encoder, nor the result; and an export
\* with a logged mux failure but no cancel(), no encoder error and no fatal
\* failure returns success with the blob
C16_MuxFailureNotFatal ==
  /\ [][muxErrors' # muxErrors =>
         /\ muxErrors' = muxErrors + 1
         /\ pc' = pc
         /\ frameIndex' = frameIndex
         /\ cancelled' = cancelled
         /\ encState' = encState
         /\ result' = result]_vars
  /\ []((/\ pc = "returned"
          /\ muxErrors > 0
          /\ cancelCalls = 0
          /\ ~encoderErrored
          /\ failures = {})
           => (result.success /\ result.blob))

\* the write of the second chunk was rejected while the loop was running,
\* every frame was still submitted and the export returned success
C16_Witness ==
  /\ pc = "returned"
  /\ result.success
  /\ faultyChunks = {1}
  /\ muxErrors = 1
  /\ skips = 0
  /\ Len(submitted) = totalFrames
  /\ Len(muxCalls) = totalFrames

\* the exporters whose export() has been called and has not returned
RunningExporters == {n \in ExportCalls : exporterState[n] = "running"}

\* C17: at most one exporter is running at any time, and a running exporter
\* is the one exporterRef refers to, the one handleCancelExport cancels
C17_SingleExport ==
  /\ Cardinality(RunningExporters) <= 1
  /\ \A n \in RunningExporters : exporterRef = n

\* C18: the metadata passed to the muxer with the first chunk has a
\* decoderConfig with codec, coded size and description, and a colour space
\* that is the exporter's default whenever the encoder supplied none
C18_FirstChunkMetadata ==
  muxCalls # <<>> =>
    /\ firstChunkMeta.decoderConfig
    /\ firstChunkMeta.codec # ""
    /\ firstChunkMeta.codedSize
    /\ firstChunkMeta.description
    /\ firstChunkMeta.colorSpace # UndefinedColorSpace
    /\ ~encoderMeta.colorSpace => firstChunkMeta.colorSpace = DefaultColorSpace

\* the rate of the recording: one frame every frameInterval ms
NominalFps == RoundDiv(1000, frameInterval)

\* C19: once loadVideo has resolved, the source frame rate is the sidecar's
\* fps when the sidecar was read and its fps is > 0 (the element is then
\* never played); otherwise the rate measured from the frames (the closest
\* common rate, or the rounded rate when the timeout ends the sampling);
\* otherwise, with too few samples, no frame callbacks or a rejected play(),
\* the duration heuristic; otherwise, when detection throws, 60.  The export
\* runs at the configured frameRate when it is > 0 and at the resolved
\* source rate when it is 0.
C19_FrameRatePriority ==
  ldPc \in {"resolved", "exporting"} =>
    /\ IF sidecar.kind = "ok" /\ sidecar.fps > 0
       THEN /\ infoFrameRate = sidecar.fps
            /\ detectionPath = "none"
            /\ elementOps = 0
       ELSE \/ /\ detectionPath \in {"measured", "measuredEarly"}
               /\ Len(frameTimes) > 5
               /\ infoFrameRate = ClosestCommonFps(NominalFps)
            \/ /\ detectionPath = "measuredTimeout"
               /\ Len(frameTimes) > 2
               /\ infoFrameRate = NominalFps
            \/ /\ detectionPath \in {"guessNoApi", "guessRejected",
                                     "guessEarly", "guessTimeout"}
               /\ infoFrameRate = guessFrameRateFromDuration(videoDuration)
            \/ /\ detectionPath = "threw"
               /\ infoFrameRate = 60
    /\ ldPc = "exporting" =>
         exportRate = IF requestedRate > 0 THEN requestedRate
                      ELSE infoFrameRate

\* a recording without sidecar whose 30 sampled frames gave 25 fps, exported
\* with frameRate 0 at 25 fps
C19_Witness ==
  /\ ldPc = "exporting"
  /\ sidecar.kind = "unreachable"
  /\ detectionPath = "measured"
  /\ frameCount = maxFrames
  /\ infoFrameRate = 25
  /\ requestedRate = 0
  /\ exportRate = 25

\* C20: the step that delivers the detected rate leaves the element paused
\* at the position it had before sampling, and once the rate is delivered
\* the detection calls no further play(), pause() or currentTime assignment
\* on the element.
C20_DetectionLeavesElementAlone ==
  /\ [][(delivered' /\ ~delivered) =>
          (vPaused' /\ vTime' = wasCurrentTime')]_vars
  /\ [][delivered => elementOps' = elementOps]_vars

\* ticks within which the paused preview must have converged: a number
\* proportional to 1 / SMOOTHING_FACTOR
ConvergenceTicks == (10 * 100) \div SMOOTHING_FACTOR

\* C21: ticking the driver with a constant target (the paused preview,
\* whose time does not change) brings scale, focusX and focusY to the
\* target exactly within ConvergenceTicks ticks; a tick taken at the target
\* leaves the state unchanged and reports motion intensity 0.
C21_AnimationConverges ==
  /\ [](~playing /\ pausedTicks >= ConvergenceTicks =>
          animationState = Target(currentVideoTime, selectedZoom))
  /\ [][(~playing
         /\ animationState = Target(currentVideoTime, selectedZoom)) =>
          (animationState' = animationState /\ motionIntensity' = 0)]_vars

\* paused at the start of the scenario region, the preview has ticked its
\* way to the region's full scale
C21_Witness ==
  /\ ~playing
  /\ ~selectedZoom
  /\ zoomRegions = <<ScenarioRegion>>
  /\ easeOutside
  /\ currentVideoTime = ScenarioRegion.startMs
  /\ pausedTicks >= 2
  /\ animationState.scale = ZOOM_DEPTH_SCALES[ScenarioRegion.depth]
  /\ animationState = Target(currentVideoTime, selectedZoom)
  /\ motionIntensity = 0

C23_UnzoomedOutsideRegion ==
  (/\ zoomRegions = <<ScenarioRegion>>
   /\ playing
   /\ animFrame >= 0
   /\ \/ currentVideoTime < ScenarioRegion.startMs
      \/ currentVideoTime > ScenarioRegion.endMs)
  => animationState.scale = Unit

\* the region that drives the target of the frame rendered last (0: none)
DrivingRegion == findDominantRegion(zoomRegions, currentVideoTime)

\* focus lies in [w/2, 1 - w/2] on both axes, w = 1 / scale
InsideWindow(cx, cy, scale) ==
  /\ HalfWindow(scale) <= cx /\ cx <= Unit - HalfWindow(scale)
  /\ HalfWindow(scale) <= cy /\ cy <= Unit - HalfWindow(scale)

C24_SpringResetsOnDiscontinuity ==
  (/\ springCall.kind = "update"
   /\ \/ springCall.first
      \/ springCall.timeDiff > 500
      \/ springCall.timeDiff < -100)
  => springState = [x |-> springCall.targetX, y |-> springCall.targetY,
                    vx |-> 0, vy |-> 0]

\* a moving spring was sent a timestamp 501 ms later and stands at the
\* target
C24_Witness ==
  /\ springCall.kind = "update"
  /\ ~springCall.first
  /\ springCall.timeDiff > 500
  /\ springCall.before.vx # 0
  /\ springCall.before.x # springCall.targetX
  /\ springState.x = springCall.targetX
  /\ springState.vx = 0
  /\ springState.vy = 0

\* C25: interpolateCursorPosition returns null for an empty recording, the
\* sole sample for a recording of one sample, the first sample's position
\* for every timeMs at or before the first timestamp and the last sample's
\* position for every timeMs at or after the last timestamp.
C25_InterpolationClampsAtBoundaries ==
  cursorFrame >= 0 =>
    LET n == Len(cursorData)
        position == interpolateCursorPosition(cursorData, cursorTimeMs)
    IN /\ interpolateCursorPosition(<<>>, cursorTimeMs) = NoPosition
       /\ n = 1 => position = cursorData[1]
       /\ cursorTimeMs <= cursorData[1].timestamp =>
            /\ position.x = cursorData[1].x
            /\ position.y = cursorData[1].y
       /\ cursorTimeMs >= cursorData[n].timestamp =>
            /\ position.x = cursorData[n].x
            /\ position.y = cursorData[n].y

\* C26: with ripples enabled, a frame creates a ripple exactly when the
\* interpolated pressed flag went from false to true since the frame
\* before; every ripple lives 400 ms and is out of the list after the first
\* frame at or beyond 400 ms after its start.
C26_OneRipplePerPressEdge ==
  cursorFrame >= 0 =>
    /\ rippleCreated <=> (cursorPos.pressed /\ ~prevFramePressed)
    /\ \A k \in 1..Len(clickRipples) :
         /\ clickRipples[k].duration = RippleDurationMs
         /\ cursorTimeMs - clickRipples[k].startTime < RippleDurationMs

\* the end points of the moveTo and lineTo commands of a path, in order
LineEnds(path) ==
  LET straight == SelectSeq(path, LAMBDA cmd : cmd.op \in {"moveTo", "lineTo"})
  IN [k \in 1..Len(straight) |-> straight[k].pts[1]]

\* a sequence of points without the points that repeat their predecessor
RECURSIVE Corners(_)
Corners(points) ==
  IF Len(points) <= 1 THEN points
  ELSE LET rest == Corners(Tail(points))
       IN IF points[1] = points[2] THEN rest ELSE <<points[1]>> \o rest

\* the squircle with a positive radius and all four corners disabled
AllCornersDisabled ==
  /\ cornerSettings.radius > 0
  /\ cornerSettings.squircle
  /\ ~cornerSettings.tl /\ ~cornerSettings.tr
  /\ ~cornerSettings.bl /\ ~cornerSettings.br

\* C27: a squircle mask drawn with a positive radius and all four corners
\* disabled consists of straight segments only, through the four corners of
\* the rectangle (0, 0, width, height) and back to the first.
C27_DisabledCornersGiveRectangle ==
  (maskPath # <<>> /\ AllCornersDisabled) =>
    /\ \A k \in 1..Len(maskPath) :
         maskPath[k].op \in {"moveTo", "lineTo", "closePath", "fill"}
    /\ maskPath[1] = moveTo(0, 0)
    /\ Corners(LineEnds(maskPath)) =
         << <<0, 0>>, <<maskRect.width, 0>>,
            <<maskRect.width, maskRect.height>>, <<0, maskRect.height>>,
            <<0, 0>> >>

\* a squircle with all corners disabled and a radius beyond half the height
\* has been drawn
C27_Witness ==
  /\ maskPath # <<>>
  /\ AllCornersDisabled
  /\ cornerSettings.radius > maskRect.height \div 2

\* C28: seekToTime clamps the requested time into [0, duration - 0.001]
\* before seeking: what it compares with and assigns is the requested time,
\* or duration - 0.001 when the frame's time lies beyond it.  It is
\* idempotent: when the element is within 0.001 s of the clamped time it
\* resolves without assigning currentTime, without registering a listener
\* and without waiting for a 'seeked' event.
C28_SeekClampsAndIsIdempotent ==
  seekCall.called =>
    /\ seekCall.clamped >= 0
    /\ seekCall.clamped <= seekDurationUs - SeekEpsilonUs
    /\ seekCall.clamped =
         IF seekCall.frameTime <= seekDurationUs - SeekEpsilonUs
         THEN seekCall.frameTime ELSE seekDurationUs - SeekEpsilonUs
    /\ seekCall.assigned => elementTimeUs = seekCall.clamped
    /\ Abs(seekCall.before - seekCall.clamped) < SeekEpsilonUs =>
         /\ ~seekCall.assigned /\ ~seekCall.listened /\ ~seekCall.waited
         /\ elementTimeUs = seekCall.before
         /\ seekListeners = 0
         /\ seekPc \in {"loop", "done"}

\* a seek to a frame time beyond duration - 0.001 has been clamped,
\* assigned and waited for
C28_Witness ==
  /\ seekCall.called
  /\ seekCall.frameTime > seekDurationUs - SeekEpsilonUs
  /\ seekCall.assigned /\ seekCall.waited
  /\ elementTimeUs = seekDurationUs - SeekEpsilonUs
  /\ seekPc = "loop"

\* frame i is the first frame at or after a whole second of the export:
\* frame 0, or the second of frame i is later than that of frame i - 1
FirstFrameOfSecond(i, rateCenti) ==
  i = 0 \/ (i * 100) \div rateCenti > ((i - 1) * 100) \div rateCenti

\* C31: a keyframe is requested for frame i exactly when i is the first
\* frame of a 1-second boundary, for every frame rate the decoder can
\* resolve, whole or not.
C31_KeyFrameAtSecondBoundaries ==
  \A k \in 1..Len(keyFlags) :
    keyFlags[k] <=> FirstFrameOfSecond(k - 1, KeyRateCenti)

\* C32: whenever the frame rate comes from the empirical detection or from
\* the heuristic fallback, not from the sidecar, the rate delivered is one
\* of 24, 25, 30, 48, 50, 60, 120, on every path, the 2-second timeout
\* included.
C32_DetectedRateIsCommon ==
  (delivered /\ detectionPath # "none") =>
    infoFrameRate \in {24, 25, 30, 48, 50, 60, 120}

\* C33: during export the cursor's target is offset + (screen / screenDim)
\* * croppedVideoDim * baseScale, with the size of the video after the crop
\* and the top-left corner of the displayed cropped area, for every crop
\* region.
C33_CursorMappedOntoCroppedVideo ==
  cursorFrame >= 0 => cursorTarget = CursorTargetOfCropped(cursorPos)

\* the time since which the cursor has stayed within the movement threshold
\* of where it is at timeMs (timeMs itself before the first sample)
StillSince(positions, timeMs) ==
  LET upTo == {i \in 1..Len(positions) : positions[i].timestamp <= timeMs}
      last == CHOOSE i \in upTo : \A j \in upTo : j <= i
      near(i) ==
        /\ Abs(positions[i].x - positions[last].x) <= MovementThreshold
        /\ Abs(positions[i].y - positions[last].y) <= MovementThreshold
      run == {j \in upTo : \A i \in j..last : near(i)}
      first == CHOOSE j \in run : \A i \in run : j <= i
  IN IF upTo = {} THEN timeMs ELSE positions[first].timestamp

\* the opacity of a cursor that fades linearly over FadeDurationMs once it
\* has been still for AutoHideDelayMs, in thousandths
FadingOpacity(positions, timeMs) ==
  LET still == timeMs - StillSince(positions, timeMs)
  IN IF still < AutoHideDelayMs THEN 1000
     ELSE Max(0, 1000 - Scaled(still - AutoHideDelayMs, 1000,
                               FadeDurationMs))

\* C34: with auto-hide enabled the cursor opacity lies in [0, 1]; once the
\* cursor has not moved beyond the threshold for autoHideDelay ms the
\* opacity fades linearly from 1 to 0 over the following 300 ms; on the
\* first frame where movement is detected the opacity is 1 again.
C34_AutoHideFade ==
  (autoHide /\ cursorFrame >= 0) =>
    /\ cursorOpacity >= 0 /\ cursorOpacity <= 1000
    /\ ~isCursorStationary(cursorData, cursorTimeMs, AutoHideDelayMs) =>
         cursorOpacity = 1000
    /\ cursorOpacity = FadingOpacity(cursorData, cursorTimeMs)

\* C35: the positions CursorTracker records are in non-decreasing timestamp
\* order, whatever the interleaving of the polling callbacks and of the
\* getCursorPosition replies, replies out of request order included.
C35_TimestampsNonDecreasing ==
  \A e \in DOMAIN positionArrays :
    \A k \in 1..(Len(positionArrays[e]) - 1) :
      positionArrays[e][k].timestamp <= positionArrays[e][k + 1].timestamp

\* a recording holds two samples whose replies came out of request order
C35_Witness ==
  \E e \in DOMAIN positionArrays :
    \E k \in 1..(Len(positionArrays[e]) - 1) :
      /\ positionArrays[e][k].req > positionArrays[e][k + 1].req
      /\ positionArrays[e][k].timestamp < positionArrays[e][k + 1].timestamp

\* C38: after stop() has returned, the returned positions array is never
\* modified again, and a getCursorPosition reply that was pending when
\* stop() was called appends no sample, neither to the returned data nor to
\* a recording started afterwards.
C38_StoppedRecordingIsFrozen ==
  /\ [][\A e \in returnedArrays : positionArrays'[e] = positionArrays[e]]_vars
  /\ [](\A e \in DOMAIN positionArrays :
          \A k \in 1..Len(positionArrays[e]) :
            positionArrays[e][k].recording = e)

\* C36: a span change committed through a drag or a resize never makes the
\* moved region overlap another zoom region, lies within [0, totalMs] when
\* the duration is known, and leaves startMs < endMs after the rounding of
\* handleZoomSpanChange.
C36_SpanChangeKeepsRegionsApart ==
  \A id \in RegionIds :
    LET region == timelineRegions[id]
    IN /\ \A other \in RegionIds \ {id} :
            \/ region.endMs <= timelineRegions[other].startMs
            \/ region.startMs >= timelineRegions[other].endMs
       /\ timelineTotal # 0 =>
            region.startMs >= 0 /\ region.endMs <= timelineTotal
       /\ region.startMs < region.endMs
       /\ region.startMs % 10 = 0 /\ region.endMs % 10 = 0

\* a resize committed a span with fractions of a millisecond on a timeline
\* of known duration, and after the rounding one region ends where the
\* other starts
C36_Witness ==
  /\ lastSpanChange.kind = "resize"
  /\ lastSpanChange.rounded
  /\ timelineTotal # 0
  /\ \E id \in RegionIds, other \in RegionIds :
       /\ id # other
       /\ timelineRegions[id].endMs = timelineRegions[other].startMs
\* C37: every VideoFrame created inside the export loop, the source frame
\* and the composited export frame, is closed before export() returns, on
\* every path.
C37_FramesClosedBeforeReturn ==
  pc = "returned" => openFrames = {}

\* a step that switches the playing state on
SwitchesOn ==
  \/ ~isPlayingRef /\ isPlayingRef'
  \/ ~isPlaying /\ isPlaying'
  \/ lastCall'.notified = "true"

\* C39: the playing state is switched on (isPlayingRef = true and
\* onPlayStateChange(true)) only by a play event that arrives while
\* allowPlaybackRef is true and isSeekingRef is false; any other play event
\* pauses the video and leaves the playing state unchanged; and after every
\* pause event no time-update animation frame remains scheduled.
C39_PlayingOnlyThroughAllowedPlay ==
  /\ [][/\ SwitchesOn =>
             /\ lastCall'.handler = "play"
             /\ allowPlaybackRef /\ ~isSeekingRef
             /\ isPlayingRef' /\ isPlaying'
             /\ lastCall'.notified = "true"
        /\ lastCall'.handler = "play"
             /\ ~(allowPlaybackRef /\ ~isSeekingRef) =>
             /\ elementPaused'
             /\ isPlayingRef' = isPlayingRef /\ isPlaying' = isPlaying
             /\ lastCall'.notified = "none"]_vars
  /\ [](lastCall.handler \in {"pause", "ended"} => rafPending = {})

\* a pause event arrives while the video plays and the frame of updateTime
\* was requested anew at least once
C39_Witness ==
  /\ lastCall.handler = "pause"
  /\ ~elementPaused
  /\ nextRafId > 2
  /\ timeUpdateAnimationRef = 0
  /\ allowPlaybackRef

\* C40: after set-current-video-path(p) for a file the video picker allows,
\* the next get-current-video-path returns p until the path is cleared or
\* replaced; and after the video and the sidecar files of a recording are
\* stored, get-current-video-path returns the video file of that recording,
\* never a sidecar file.
C40_GetReturnsPathSetOrRecording ==
  /\ lastGet.set # NoPath =>
       lastGet.success /\ lastGet.path = lastGet.set
  /\ lastGet.stored # 0 =>
       /\ lastGet.success
       /\ lastGet.path = File("recordings", lastGet.stored, "webm")

====
